---- MODULE Spec2Model ----
(***************************************************************************)
(* A model of the openrouter-tgbot relay: the message splitter, the table  *)
(* conversions and the update handlers of the bot package, the cost        *)
(* reconciliation and the cost estimate of the openrouter client, and the  *)
(* file-per-user storage layer.                                            *)
(*                                                                         *)
(* Strings are sequences of one-character strings, so that len, slicing,   *)
(* strings.Split, strings.Fields and strings.TrimSpace are computed as the *)
(* Go code computes them.                                                  *)
(***************************************************************************)
EXTENDS Integers, Sequences, FiniteSets, TLC

(***************************************************************************)
(* Bounds of the message-splitter inputs.                                  *)
(***************************************************************************)
MaxTextLen == 7
MaxMaxLength == 3

(***************************************************************************)
(* A limit that lets a line hold two words two spaces apart.               *)
(***************************************************************************)
WideMaxLength == 4

(***************************************************************************)
(* Number of concurrently handled updates (goroutines of Bot.Start).       *)
(***************************************************************************)
NumHandlers == 2

(***************************************************************************)
(* Number of AddExpense calls made one after the other.                    *)
(***************************************************************************)
MaxSeqCalls == 3

(***************************************************************************)
(* Number of fragments a model name given to CalculateCost is made of.     *)
(***************************************************************************)
MaxNameParts == 2

(***************************************************************************)
(* Number of lines of a text given to the table conversion.                *)
(***************************************************************************)
MaxTableLines == 3

(***************************************************************************)
(* Number of inbound updates the bot handles.                              *)
(***************************************************************************)
MaxUpdates == 1

(***************************************************************************)
(* Length of a text given to formatForMarkdownV2.                          *)
(***************************************************************************)
MaxFormatLen == 6

(***************************************************************************)
(* Number of ticks of the typing indicator's ticker.                       *)
(***************************************************************************)
MaxTicks == 4

(***************************************************************************)
(* Number of messages of the same user saved by other handlers while one   *)
(* handleChatMessage runs.                                                 *)
(***************************************************************************)
MaxOtherMessages == 1

\* The characters texts are built from: two letters and two whitespace
\* characters (space and newline).
Chars == {"a", "b", " ", "\n"}

VARIABLES
    text,        \* splitMessage: the text argument
    maxLength,   \* splitMessage: the maxLength argument
    messages,    \* splitMessage: the returned chunks
    messagesWords, \* the chunks the words-only splitMessage returns
    splitPc      \* "call" before splitMessage ran, "done" after

splitVars == <<text, maxLength, messages, messagesWords, splitPc>>

VARIABLES
    files,       \* FileStorage: user id -> the user's JSON file
    now          \* time.Now(), a logical clock

VARIABLES
    reqModel,        \* GetChatResponse: the model argument
    rpc,             \* GetChatResponse: position in the call
    resp,            \* the ChatCompletion outcome
    attempt,         \* GetGenerationStats: the loop counter i
    statsRequests,   \* number of c.client.Do calls on the stats endpoint
    waits,           \* the time.Sleep durations so far, in seconds
    responses,       \* the stats endpoint's answers so far
    expense,         \* the ExpenseRecord built by GetChatResponse
    result,          \* what GetChatResponse returned
    addExpenseCalls, \* number of store.AddExpense calls
    addExpenseErr,   \* whether store.AddExpense returned an error
    filesAtCall      \* the files when GetChatResponse was called

VARIABLES
    hop,         \* handler -> the storage operation its goroutine runs
    hpc,         \* handler -> "read" (before GetUserSettings), "write"
                 \*            (before SaveUserSettings) or "done"
    hsettings,   \* handler -> the *UserSettings its GetUserSettings returned
    hres,        \* handler -> what the operation returned
    fver,        \* user -> number of writes of the user's file so far
    hver,        \* handler -> fver of its user when it read
    wroteStale   \* handler -> its write replaced a file newer than its read

storeVars == <<hop, hpc, hsettings, hres, fver, hver, wroteStale>>

reconVars == <<reqModel, rpc, resp, attempt, statsRequests, waits, responses,
               expense, result, addExpenseCalls, addExpenseErr, filesAtCall>>

VARIABLES
    chatPc,      \* handleChatMessage: "start", "wait" (in GetChatResponse),
                 \*                    "end" after its return
    sent         \* the b.api.Send calls of the handler, in order

chatVars == <<chatPc, sent>>

VARIABLES
    calls,       \* user -> the records of the AddExpense calls that returned
                 \*         nil, in call order
    files0       \* the files before the first of these calls

seqVars == <<calls, files0>>

VARIABLES
    cmodel,      \* CalculateCost: the model argument
    cin,         \* CalculateCost: inputTokens
    cout,        \* CalculateCost: outputTokens
    ccost,       \* CalculateCost: the returned estimate
    cpc          \* "call" before CalculateCost ran, "done" after

costVars == <<cmodel, cin, cout, ccost, cpc>>

VARIABLES
    tableText,   \* the text argument of the table conversions
    outV2,       \* what convertTablesToMarkdownV2 of formatting.go returns
    outMarkdown, \* what convertTablesToMarkdown returns
    outV2Dash,   \* what the convertTablesToMarkdownV2 joining with a dash returns
    outV2Blank,  \* what the convertTablesToMarkdownV2 framing tables with
                 \* blank lines returns
    tpc          \* "call" before the conversions ran, "done" after

tableVars == <<tableText, outV2, outMarkdown, outV2Dash, outV2Blank, tpc>>

VARIABLES
    allowedUsers, \* config.AllowedUsers
    handled,      \* number of updates handled so far
    lastUpdate,   \* the update handled last
    replies,      \* the messages its handler sent to the user, in order
    lastCalls,    \* whether its handler called the storage, the completion API
    prevFiles,    \* the files when its handler started
    touched,      \* user -> some handler called the storage for the user
    completed     \* user -> some handler made a completion call for the user

botVars == <<allowedUsers, handled, lastUpdate, replies, lastCalls, prevFiles,
             touched, completed>>

VARIABLES
    formatText,  \* the text argument of formatForMarkdownV2
    formatted,   \* what formatForMarkdownV2 returns
    formatPc     \* "call" before formatForMarkdownV2 ran, "done" after

formatVars == <<formatText, formatted, formatPc>>

VARIABLES
    handlerPc,  \* where handleChatMessage stands around its completion call
    typingPc,   \* where the goroutine running sendTypingIndicator stands
    ctxDone,    \* the handler's context is cancelled
    tickerC,    \* ticks waiting in the ticker's channel, which buffers one
    ticks,      \* ticks the ticker has delivered so far
    llmErr,     \* GetChatResponse returned an error
    outbox      \* what was sent to the chat with b.api.Send, in order

typingVars == <<handlerPc, typingPc, ctxDone, tickerC, ticks, llmErr, outbox>>

VARIABLES
    requestPc,    \* where handleChatMessage stands before its completion call
    settingsRead, \* the settings it read at its entry
    userMsg,      \* its userMsg
    userMsgSaved, \* its AddChatMessage of userMsg returned no error
    historyRead,  \* what its GetChatHistory returned
    historyErr,   \* its GetChatHistory returned an error
    request,      \* the messages it gives to GetChatResponse
    otherSaved    \* number of messages other handlers saved meanwhile

requestVars == <<requestPc, settingsRead, userMsg, userMsgSaved, historyRead,
                 historyErr, request, otherSaved>>

(***************************************************************************)
(* Go string helpers.                                                      *)
(***************************************************************************)
\* unicode.IsSpace restricted to Chars
IsSpace(c) == c \in {" ", "\n"}

RECURSIVE TrimLeft(_)
TrimLeft(s) ==
    IF s = <<>> THEN s
    ELSE IF IsSpace(Head(s)) THEN TrimLeft(Tail(s)) ELSE s

RECURSIVE TrimRight(_)
TrimRight(s) ==
    IF s = <<>> THEN s
    ELSE IF IsSpace(s[Len(s)]) THEN TrimRight(SubSeq(s, 1, Len(s) - 1)) ELSE s

\* strings.TrimSpace
TrimSpace(s) == TrimRight(TrimLeft(s))

HasPrefix(s, prefix) ==
    Len(s) >= Len(prefix) /\ SubSeq(s, 1, Len(prefix)) = prefix

RECURSIVE SplitAcc(_, _, _)
SplitAcc(s, sep, cur) ==
    IF s = <<>> THEN <<cur>>
    ELSE IF HasPrefix(s, sep)
         THEN <<cur>> \o SplitAcc(SubSeq(s, Len(sep) + 1, Len(s)), sep, <<>>)
         ELSE SplitAcc(Tail(s), sep, Append(cur, Head(s)))

\* strings.Split(s, sep) for a non-empty sep
StringsSplit(s, sep) == SplitAcc(s, sep, <<>>)

RECURSIVE FieldsAcc(_, _)
FieldsAcc(s, cur) ==
    IF s = <<>> THEN (IF cur = <<>> THEN <<>> ELSE <<cur>>)
    ELSE IF IsSpace(Head(s))
         THEN (IF cur = <<>> THEN <<>> ELSE <<cur>>) \o FieldsAcc(Tail(s), <<>>)
         ELSE FieldsAcc(Tail(s), Append(cur, Head(s)))

\* strings.Fields
Fields(s) == FieldsAcc(s, <<>>)

HasSuffix(s, suffix) ==
    Len(s) >= Len(suffix) /\ SubSeq(s, Len(s) - Len(suffix) + 1, Len(s)) = suffix

StringsContains(s, substr) ==
    \E k \in 0..(Len(s) - Len(substr)) : SubSeq(s, k + 1, k + Len(substr)) = substr

RECURSIVE StringsTrim(_, _)
StringsTrim(s, cutset) ==
    IF s = <<>> THEN s
    ELSE IF Head(s) \in cutset THEN StringsTrim(Tail(s), cutset)
    ELSE IF s[Len(s)] \in cutset THEN StringsTrim(SubSeq(s, 1, Len(s) - 1), cutset)
    ELSE s

RECURSIVE StringsJoin(_, _)
StringsJoin(elems, sep) ==
    IF elems = <<>> THEN <<>>
    ELSE IF Len(elems) = 1 THEN elems[1]
    ELSE elems[1] \o sep \o StringsJoin(Tail(elems), sep)

(***************************************************************************)
(* The table conversions of the bot package.  The bullet and the dash of   *)
(* the Go string literals are one character each here.                     *)
(***************************************************************************)
Bullet == "bullet"

EmDash == "emdash"

\* the test on a line that opens the table branch
IsTableRow(trimmed) ==
    /\ HasPrefix(trimmed, <<"|">>)
    /\ HasSuffix(trimmed, <<"|">>)
    /\ Len(trimmed) > 2

\* the test on the next line that makes a row a header, and on a line
\* itself that makes it a separator
LooksLikeSeparator(trimmed) ==
    StringsContains(trimmed, <<"-">>) /\ StringsContains(trimmed, <<"|">>)

IsHeaderRow(lines, i) ==
    i + 1 <= Len(lines) /\ LooksLikeSeparator(TrimSpace(lines[i + 1]))

RowCells(trimmed) == StringsSplit(StringsTrim(trimmed, {"|"}), <<"|">>)

\* the loop over the cells: empty cells dropped, header cells wrapped
RECURSIVE CleanCells(_, _, _)
CleanCells(cells, isHeader, mark) ==
    IF cells = <<>> THEN <<>>
    ELSE LET cell == TrimSpace(Head(cells))
             rest == CleanCells(Tail(cells), isHeader, mark)
         IN  IF cell = <<>> THEN rest
             ELSE IF isHeader THEN <<mark \o cell \o mark>> \o rest
             ELSE <<cell>> \o rest

\* one iteration of the loop over the lines: the lines it appends to result
ConvertLine(lines, i, mark, joiner) ==
    LET trimmed == TrimSpace(lines[i])
    IN  IF IsTableRow(trimmed)
        THEN LET cleanCells == CleanCells(RowCells(trimmed), IsHeaderRow(lines, i), mark)
             IN  IF Len(cleanCells) > 0
                 THEN << <<Bullet, " ">> \o StringsJoin(cleanCells, joiner) >>
                 ELSE <<>>
        ELSE IF LooksLikeSeparator(trimmed) /\ Len(TrimSpace(trimmed)) > 0
        THEN <<>>
        ELSE <<lines[i]>>

RECURSIVE ConvertLines(_, _, _, _)
ConvertLines(lines, i, mark, joiner) ==
    IF i > Len(lines) THEN <<>>
    ELSE ConvertLine(lines, i, mark, joiner) \o ConvertLines(lines, i + 1, mark, joiner)

ConvertTables(txt, mark, joiner) ==
    StringsJoin(ConvertLines(StringsSplit(txt, <<"\n">>), 1, mark, joiner), <<"\n">>)

\* formatting.go
convertTablesToMarkdownV2(txt) == ConvertTables(txt, <<"*">>, <<" ", "|", " ">>)

\* the conversion for the Markdown parse mode
convertTablesToMarkdown(txt) == ConvertTables(txt, <<"*", "*">>, <<" ", "|", " ">>)

\* the convertTablesToMarkdownV2 that joins the cells with a dash
convertTablesToMarkdownV2Dash(txt) == ConvertTables(txt, <<"*">>, <<" ", EmDash, " ">>)

\* the convertTablesToMarkdownV2 that frames tables with blank lines: the
\* loop over the cells keeps empty cells
RECURSIVE FormatCells(_, _)
FormatCells(cells, isHeader) ==
    IF cells = <<>> THEN <<>>
    ELSE LET cell == TrimSpace(Head(cells))
         IN  (IF isHeader /\ cell # <<>> THEN << <<"*">> \o cell \o <<"*">> >>
              ELSE <<cell>>) \o FormatCells(Tail(cells), isHeader)

\* one iteration of its loop; the i++ before its continue changes a copy of
\* the range variable, so the next iteration is the next line all the same
BlankStep(st, lines, i) ==
    LET trimmed == TrimSpace(lines[i])
    IN  IF IsTableRow(trimmed)
        THEN [inTable |-> TRUE,
              result  |-> st.result
                            \o (IF ~st.inTable THEN << <<>> >> ELSE <<>>)
                            \o << <<Bullet, " ">>
                                    \o StringsJoin(FormatCells(RowCells(trimmed),
                                                               IsHeaderRow(lines, i)),
                                                   <<" ", "|", " ">>) >>]
        ELSE [inTable |-> FALSE,
              result  |-> st.result
                            \o (IF st.inTable THEN << <<>> >> ELSE <<>>)
                            \o <<lines[i]>>]

RECURSIVE BlankLoop(_, _, _)
BlankLoop(st, lines, i) ==
    IF i > Len(lines) THEN st
    ELSE BlankLoop(BlankStep(st, lines, i), lines, i + 1)

convertTablesToMarkdownV2Blank(txt) ==
    StringsJoin(BlankLoop([inTable |-> FALSE, result |-> <<>>],
                          StringsSplit(txt, <<"\n">>), 1).result,
                <<"\n">>)

(***************************************************************************)
(* Bot.splitMessage.  Each loop of the Go code is a fold of a step         *)
(* operator over the units; the loop state is the messages slice and the   *)
(* accumulator string of that loop (wordCurrent, tempCurrent, current).    *)
(***************************************************************************)
\* word[:maxLength] of the force split
ForceSplitHead(word, maxLen) == SubSeq(word, 1, maxLen)

\* a force split that skips the character at the cut
ForceSplitRestDropsChar(word, maxLen) == SubSeq(word, maxLen + 2, Len(word))

\* word[maxLength:] of the force split
ForceSplitRest(word, maxLen) == SubSeq(word, maxLen + 1, Len(word))

\* body of "for _, word := range words"
WordStep(st, word, maxLen) ==
    IF Len(st.cur) + Len(word) + 1 > maxLen
    THEN IF st.cur # <<>>
         THEN [msgs |-> Append(st.msgs, TrimSpace(st.cur)), cur |-> word]
         ELSE [msgs |-> Append(st.msgs, ForceSplitHead(word, maxLen)),
               cur  |-> ForceSplitRest(word, maxLen)]
    ELSE [msgs |-> st.msgs,
          cur  |-> IF st.cur = <<>> THEN word ELSE st.cur \o <<" ">> \o word]

RECURSIVE WordLoop(_, _, _)
WordLoop(st, words, maxLen) ==
    IF words = <<>> THEN st
    ELSE WordLoop(WordStep(st, Head(words), maxLen), Tail(words), maxLen)

\* the line that alone is too long: split by words; tempCurrent takes
\* wordCurrent when that is not empty
SplitLineByWords(st, line, maxLen) ==
    LET w == WordLoop([msgs |-> st.msgs, cur |-> <<>>], Fields(line), maxLen)
    IN  [msgs |-> w.msgs, cur |-> IF w.cur # <<>> THEN w.cur ELSE st.cur]

\* body of "for _, line := range lines"
LineStep(st, rawLine, maxLen) ==
    LET line == TrimSpace(rawLine)
    IN  IF line = <<>> THEN st
        ELSE IF Len(st.cur) + Len(line) + 1 > maxLen
             THEN IF st.cur # <<>>
                  THEN [msgs |-> Append(st.msgs, TrimSpace(st.cur)), cur |-> line]
                  ELSE SplitLineByWords(st, line, maxLen)
             ELSE [msgs |-> st.msgs,
                   cur  |-> IF st.cur = <<>> THEN line
                            ELSE st.cur \o <<"\n">> \o line]

RECURSIVE LineLoop(_, _, _)
LineLoop(st, lines, maxLen) ==
    IF lines = <<>> THEN st
    ELSE LineLoop(LineStep(st, Head(lines), maxLen), Tail(lines), maxLen)

\* the paragraph that alone is too long: split by lines; current takes
\* tempCurrent
SplitParagraphByLines(st, paragraph, maxLen) ==
    LineLoop([msgs |-> st.msgs, cur |-> <<>>],
             StringsSplit(paragraph, <<"\n">>), maxLen)

\* body of "for _, paragraph := range paragraphs"
ParagraphStep(st, rawParagraph, maxLen) ==
    LET paragraph == TrimSpace(rawParagraph)
    IN  IF paragraph = <<>> THEN st
        ELSE IF Len(st.cur) + Len(paragraph) + 2 > maxLen
             THEN IF st.cur # <<>>
                  THEN [msgs |-> Append(st.msgs, TrimSpace(st.cur)),
                        cur  |-> paragraph]
                  ELSE SplitParagraphByLines(st, paragraph, maxLen)
             ELSE [msgs |-> st.msgs,
                   cur  |-> IF st.cur = <<>> THEN paragraph
                            ELSE st.cur \o <<"\n", "\n">> \o paragraph]

RECURSIVE ParagraphLoop(_, _, _)
ParagraphLoop(st, paragraphs, maxLen) ==
    IF paragraphs = <<>> THEN st
    ELSE ParagraphLoop(ParagraphStep(st, Head(paragraphs), maxLen),
                       Tail(paragraphs), maxLen)

\* a splitter without the early return for short texts
splitMessageNoShortcut(txt, maxLen) ==
    LET st == ParagraphLoop([msgs |-> <<>>, cur |-> <<>>],
                            StringsSplit(txt, <<"\n", "\n">>), maxLen)
    IN  IF st.cur # <<>> THEN Append(st.msgs, st.cur) ELSE st.msgs

\* a splitter that returns no chunk for the empty text
splitMessageSkipsEmpty(txt, maxLen) ==
    IF txt = <<>> THEN <<>>
    ELSE IF Len(txt) <= maxLen THEN <<txt>>
    ELSE splitMessageNoShortcut(txt, maxLen)

splitMessage(txt, maxLen) ==
    IF Len(txt) <= maxLen THEN <<txt>>
    ELSE LET st == ParagraphLoop([msgs |-> <<>>, cur |-> <<>>],
                                 StringsSplit(txt, <<"\n", "\n">>), maxLen)
         IN  IF st.cur # <<>> THEN Append(st.msgs, st.cur) ELSE st.msgs

(***************************************************************************)
(* The other Bot.splitMessage of the repository, which breaks at words     *)
(* only.                                                                   *)
(***************************************************************************)
\* body of its "for _, word := range words"
WordsOnlyStep(st, word, maxLen) ==
    IF Len(st.cur) + Len(word) + 1 > maxLen
    THEN IF st.cur # <<>>
         THEN [msgs |-> Append(st.msgs, st.cur), cur |-> word]
         ELSE [msgs |-> Append(st.msgs, SubSeq(word, 1, maxLen)),
               cur  |-> SubSeq(word, maxLen + 1, Len(word))]
    ELSE [msgs |-> st.msgs,
          cur  |-> IF st.cur = <<>> THEN word ELSE st.cur \o <<" ">> \o word]

RECURSIVE WordsOnlyLoop(_, _, _)
WordsOnlyLoop(st, words, maxLen) ==
    IF words = <<>> THEN st
    ELSE WordsOnlyLoop(WordsOnlyStep(st, Head(words), maxLen), Tail(words), maxLen)

splitMessageWords(txt, maxLen) ==
    IF Len(txt) <= maxLen THEN <<txt>>
    ELSE LET st == WordsOnlyLoop([msgs |-> <<>>, cur |-> <<>>], Fields(txt), maxLen)
         IN  IF st.cur # <<>> THEN Append(st.msgs, st.cur) ELSE st.msgs

(***************************************************************************)
(* Model names: the models the bot lists, as character sequences.          *)
(***************************************************************************)
NameGpt4 == <<"o","p","e","n","a","i","/","g","p","t","-","4">>
NameGpt35 == <<"o","p","e","n","a","i","/","g","p","t","-","3",".","5","-",
               "t","u","r","b","o">>
NameClaude == <<"a","n","t","h","r","o","p","i","c","/","c","l","a","u","d",
                "e","-","3","-","s","o","n","n","e","t">>
NameGemini == <<"g","o","o","g","l","e","/","g","e","m","i","n","i","-","p",
                "r","o">>

Models == {NameGpt4, NameGpt35, NameClaude, NameGemini}

(***************************************************************************)
(* package storage: one JSON file per user, read and written whole.        *)
(***************************************************************************)
Users == {1, 2}

\* the settings GetUserSettings returns when the user has no file
DefaultSettings(userID) ==
    [UserID         |-> userID,
     CurrentModel   |-> NameGpt35,
     ChatMode       |-> "without_history",
     CustomModels   |-> <<>>,
     TotalExpenses  |-> 0,
     ExpenseHistory |-> <<>>,
     ChatHistory    |-> <<>>]

NoFile(userID) == [exists |-> FALSE, data |-> DefaultSettings(userID)]

\* a read that ignores the file
GetUserSettingsAlwaysDefault(fs, userID) == DefaultSettings(userID)

\* GetUserSettings when the read succeeds
GetUserSettings(fs, userID) ==
    IF ~fs[userID].exists THEN DefaultSettings(userID) ELSE fs[userID].data

\* a store that keeps one file for all users
SaveUserSettingsSharedFile(fs, settings) ==
    [u \in Users |-> [exists |-> TRUE, data |-> settings]]

\* SaveUserSettings when the write succeeds: the whole file is replaced
SaveUserSettings(fs, settings) ==
    [fs EXCEPT ![settings.UserID] = [exists |-> TRUE, data |-> settings]]

\* an append that stores the record twice
AppendExpenseTwice(settings, e) ==
    [settings EXCEPT !.ExpenseHistory = Append(Append(@, e), e),
                     !.TotalExpenses = @ + e.Cost + e.Cost]

\* an append that leaves the running total alone
AppendExpenseNoTotal(settings, e) ==
    [settings EXCEPT !.ExpenseHistory = Append(@, e)]

\* an append that puts the newest record first
AppendExpenseFirst(settings, e) ==
    [settings EXCEPT !.ExpenseHistory = <<e>> \o @,
                     !.TotalExpenses = @ + e.Cost]

\* AddExpense between its read and its write
AppendExpense(settings, e) ==
    [settings EXCEPT !.ExpenseHistory = Append(@, e),
                     !.TotalExpenses = @ + e.Cost]

\* the history cap of AddChatMessage
MaxChatHistory == 50

\* an append that keeps the oldest messages when the history is full
AppendChatMessageKeepsOldest(settings, m) ==
    LET h == Append(settings.ChatHistory, m)
    IN  [settings EXCEPT !.ChatHistory =
            IF Len(h) > MaxChatHistory THEN SubSeq(h, 1, MaxChatHistory) ELSE h]

\* AddChatMessage between its read and its write
AppendChatMessage(settings, m) ==
    LET h == Append(settings.ChatHistory, m)
    IN  [settings EXCEPT !.ChatHistory =
            IF Len(h) > MaxChatHistory
            THEN SubSeq(h, Len(h) - MaxChatHistory + 1, Len(h))
            ELSE h]

\* ClearChatHistory between its read and its write
ClearHistory(settings) == [settings EXCEPT !.ChatHistory = <<>>]

\* handleModeCommand: settings.ChatMode = mode
SetChatMode(settings, mode) == [settings EXCEPT !.ChatMode = mode]

\* handleModelCommand: settings.CurrentModel = model
SetCurrentModel(settings, model) == [settings EXCEPT !.CurrentModel = model]

\* handleAddModelCommand: the "already in your list" check
HasCustomModel(settings, model) ==
    \E k \in 1..Len(settings.CustomModels) : settings.CustomModels[k] = model

\* handleAddModelCommand: settings.CustomModels = append(..., model)
AppendCustomModel(settings, model) ==
    [settings EXCEPT !.CustomModels = Append(@, model)]

(***************************************************************************)
(* package openrouter.  Costs are in millionths of a dollar, so the rate   *)
(* table and the products of CalculateCost are integers.                   *)
(***************************************************************************)
Gpt4InputPer1K == 30000
Gpt4OutputPer1K == 60000
Gpt35InputPer1K == 1000
Gpt35OutputPer1K == 2000
ClaudeInputPer1K == 8000
ClaudeOutputPer1K == 24000
DefaultInputPer1K == 2000
DefaultOutputPer1K == 4000

findSubstring(s, substr) ==
    \E k \in 0..(Len(s) - Len(substr)) : SubSeq(s, k + 1, k + Len(substr)) = substr

contains(s, substr) ==
    /\ Len(s) >= Len(substr)
    /\ \/ s = substr
       \/ /\ Len(s) > Len(substr)
          /\ \/ SubSeq(s, 1, Len(substr)) = substr
             \/ SubSeq(s, Len(s) - Len(substr) + 1, Len(s)) = substr
             \/ findSubstring(s, substr)

\* a switch that tries the claude case first
RatePairClaudeFirst(model) ==
    IF contains(model, <<"c","l","a","u","d","e">>)
    THEN [input |-> ClaudeInputPer1K, output |-> ClaudeOutputPer1K]
    ELSE IF contains(model, <<"g","p","t","-","4">>)
    THEN [input |-> Gpt4InputPer1K, output |-> Gpt4OutputPer1K]
    ELSE IF contains(model, <<"g","p","t","-","3",".","5","-","t","u","r","b","o">>)
    THEN [input |-> Gpt35InputPer1K, output |-> Gpt35OutputPer1K]
    ELSE [input |-> DefaultInputPer1K, output |-> DefaultOutputPer1K]

\* a switch without the claude case
RatePairNoClaude(model) ==
    IF contains(model, <<"g","p","t","-","4">>)
    THEN [input |-> Gpt4InputPer1K, output |-> Gpt4OutputPer1K]
    ELSE IF contains(model, <<"g","p","t","-","3",".","5","-","t","u","r","b","o">>)
    THEN [input |-> Gpt35InputPer1K, output |-> Gpt35OutputPer1K]
    ELSE [input |-> DefaultInputPer1K, output |-> DefaultOutputPer1K]

\* the switch of CalculateCost
RatePair(model) ==
    IF contains(model, <<"g","p","t","-","4">>)
    THEN [input |-> Gpt4InputPer1K, output |-> Gpt4OutputPer1K]
    ELSE IF contains(model, <<"g","p","t","-","3",".","5","-","t","u","r","b","o">>)
    THEN [input |-> Gpt35InputPer1K, output |-> Gpt35OutputPer1K]
    ELSE IF contains(model, <<"c","l","a","u","d","e">>)
    THEN [input |-> ClaudeInputPer1K, output |-> ClaudeOutputPer1K]
    ELSE [input |-> DefaultInputPer1K, output |-> DefaultOutputPer1K]

\* an estimate with the two rates exchanged
CalculateCostSwapped(model, inputTokens, outputTokens) ==
    (inputTokens * RatePair(model).output) \div 1000
        + (outputTokens * RatePair(model).input) \div 1000

\* CalculateCost: tokens/1000 * rate, input plus output
CalculateCost(model, inputTokens, outputTokens) ==
    (inputTokens * RatePair(model).input) \div 1000
        + (outputTokens * RatePair(model).output) \div 1000

\* the retry loop bound of GetGenerationStats
MaxStatsAttempts == 5

\* a fixed one-second wait
BackoffConstant(i) == 1

\* a wait of i seconds, counting attempts from zero
BackoffFromZero(i) == i

\* time.Duration(i+1) * time.Second
BackoffSeconds(i) == i + 1

ZeroStats ==
    [Model |-> <<>>, TokensPrompt |-> 0, TokensCompletion |-> 0,
     NativeTokensPrompt |-> 0, NativeTokensCompletion |-> 0, TotalCost |-> 0]

\* the stats payloads the provider may answer with
StatsPayloads ==
    {ZeroStats,
     [Model |-> NameGpt4, TokensPrompt |-> 1000, TokensCompletion |-> 500,
      NativeTokensPrompt |-> 1200, NativeTokensCompletion |-> 300,
      TotalCost |-> 4200],
     [Model |-> NameClaude, TokensPrompt |-> 500, TokensCompletion |-> 1000,
      NativeTokensPrompt |-> 700, NativeTokensCompletion |-> 900,
      TotalCost |-> 65],
     [Model |-> NameGemini, TokensPrompt |-> 100, TokensCompletion |-> 100,
      NativeTokensPrompt |-> 100, NativeTokensCompletion |-> 100,
      TotalCost |-> -500]}

\* what one c.client.Do on the stats endpoint can come back with
StatsOutcomes ==
    {[kind |-> "transport", status |-> 0, body |-> "none", stats |-> ZeroStats]}
    \cup {[kind |-> "response", status |-> 202, body |-> "none", stats |-> ZeroStats]}
    \cup {[kind |-> "response", status |-> 200, body |-> "json", stats |-> p] :
            p \in StatsPayloads}
    \cup {[kind |-> "response", status |-> 200, body |-> b, stats |-> ZeroStats] :
            b \in {"garbage", "unreadable"}}
    \cup {[kind |-> "response", status |-> 201, body |-> "json", stats |-> p] :
            p \in StatsPayloads}
    \cup {[kind |-> "response", status |-> 500, body |-> "garbage", stats |-> ZeroStats]}

\* "if resp.StatusCode == 202"
IsPending(o) == o.kind = "response" /\ o.status = 202

\* the sleep the loop takes after this response, if any
SleepAfter(i, o) == IF IsPending(o) THEN <<BackoffSeconds(i)>> ELSE <<>>

\* a loop that also retries after a transport error
LoopContinuesOnError(i, o) ==
    (IsPending(o) \/ o.kind = "transport") /\ i + 1 < MaxStatsAttempts

\* whether the loop goes on to another request: not after a transport
\* error (return), not after another status (break), not after attempt 5
LoopContinues(i, o) == IsPending(o) /\ i + 1 < MaxStatsAttempts

\* the code after the loop: read the body, check the status, parse.  The
\* body of a 202 response was closed inside the loop.
StatsParsed(o) ==
    /\ o.kind = "response"
    /\ o.body # "unreadable"
    /\ ~IsPending(o)
    /\ o.status = 200
    /\ o.body = "json"

\* what one ChatCompletion call can come back with
CompletionOutcomes ==
    [kind : {"ok"}, choices : {0, 1}, ID : {"", "gen-1"},
     PromptTokens : {0, 1000, -2000}, CompletionTokens : {500}]
    \cup [kind : {"transport", "parse", "apierror", "status"}, choices : {0},
          ID : {""}, PromptTokens : {0}, CompletionTokens : {0}]

NoResponse ==
    [kind |-> "none", choices |-> 0, ID |-> "", PromptTokens |-> 0,
     CompletionTokens |-> 0]

NoExpense ==
    [Timestamp |-> 0, Model |-> <<>>, InputTokens |-> 0, OutputTokens |-> 0,
     Cost |-> 0]

\* the expense of the two fallback branches of GetChatResponse
FallbackExpense(t, model, r) ==
    [Timestamp    |-> t,
     Model        |-> model,
     InputTokens  |-> r.PromptTokens,
     OutputTokens |-> r.CompletionTokens,
     Cost         |-> CalculateCost(model, r.PromptTokens, r.CompletionTokens)]

\* an expense built from the normalized token counts of the payload
StatsExpenseNormalized(t, stats) ==
    [Timestamp    |-> t,
     Model        |-> stats.Model,
     InputTokens  |-> stats.TokensPrompt,
     OutputTokens |-> stats.TokensCompletion,
     Cost         |-> stats.TotalCost]

\* the expense of the "accurate stats" branch of GetChatResponse
StatsExpense(t, stats) ==
    [Timestamp    |-> t,
     Model        |-> stats.Model,
     InputTokens  |-> stats.NativeTokensPrompt,
     OutputTokens |-> stats.NativeTokensCompletion,
     Cost         |-> stats.TotalCost]

(***************************************************************************)
(* One GetChatResponse call for user 1, step by step: the completion       *)
(* call, each request of the stats retry loop with its sleep, AddExpense.  *)
(***************************************************************************)
CallerID == 1

\* a file left by earlier completions
EarlierFile(userID) ==
    [exists |-> TRUE,
     data   |-> AppendExpense(DefaultSettings(userID),
                    [Timestamp |-> 0, Model |-> NameGpt4, InputTokens |-> 10,
                     OutputTokens |-> 20, Cost |-> 1500])]

\* every user either has no file yet or has one with an earlier expense
InitialFiles ==
    {[u \in Users |-> IF u \in S THEN EarlierFile(u) ELSE NoFile(u)] :
        S \in SUBSET Users}

ReconInit ==
    /\ reqModel \in Models
    /\ files \in InitialFiles
    /\ filesAtCall = files
    /\ now = 1
    /\ rpc = "completion"
    /\ resp = NoResponse
    /\ attempt = 0
    /\ statsRequests = 0
    /\ waits = <<>>
    /\ responses = <<>>
    /\ expense = NoExpense
    /\ result = "none"
    /\ addExpenseCalls = 0
    /\ addExpenseErr = FALSE

\* c.ChatCompletion(req) and the branch on its result
ChatCompletion ==
    /\ rpc = "completion"
    /\ \E o \in CompletionOutcomes :
        /\ resp' = o
        /\ IF o.kind # "ok" \/ o.choices = 0
           THEN /\ result' = "error"
                /\ rpc' = "done"
                /\ UNCHANGED <<expense, now>>
           ELSE IF o.ID # ""
           THEN /\ rpc' = "stats"
                /\ UNCHANGED <<result, expense, now>>
           ELSE /\ expense' = FallbackExpense(now, reqModel, o)
                /\ now' = now + 1
                /\ rpc' = "persist"
                /\ UNCHANGED result
    /\ UNCHANGED <<reqModel, attempt, statsRequests, waits, responses,
                   addExpenseCalls, addExpenseErr, filesAtCall, files>>

\* one iteration of the retry loop of GetGenerationStats; when the loop
\* ends, the rest of GetGenerationStats and the branch of GetChatResponse
\* on its result
StatsAttempt ==
    /\ rpc = "stats"
    /\ attempt < MaxStatsAttempts
    /\ \E o \in StatsOutcomes :
        /\ statsRequests' = statsRequests + 1
        /\ responses' = Append(responses, o)
        /\ waits' = waits \o SleepAfter(attempt, o)
        /\ attempt' = IF LoopContinues(attempt, o) \/ IsPending(o)
                       THEN attempt + 1 ELSE attempt
        /\ IF LoopContinues(attempt, o)
           THEN UNCHANGED <<expense, now, rpc>>
           ELSE /\ expense' = IF StatsParsed(o)
                              THEN StatsExpense(now, o.stats)
                              ELSE FallbackExpense(now, reqModel, resp)
                /\ now' = now + 1
                /\ rpc' = "persist"
    /\ UNCHANGED <<reqModel, resp, result, addExpenseCalls, addExpenseErr,
                   filesAtCall, files>>

\* a GetChatResponse that fails when the expense could not be stored
TrackResultFatal(err) == IF err THEN "error" ELSE "ok"

\* GetChatResponse after AddExpense: return content, nil
TrackResult(err) == "ok"

\* store.AddExpense(userID, expense), its error only logged, and the return
TrackExpense ==
    /\ rpc = "persist"
    /\ addExpenseCalls' = addExpenseCalls + 1
    /\ \E readOk, writeOk \in BOOLEAN :
        /\ addExpenseErr' = ~(readOk /\ writeOk)
        /\ files' = IF readOk /\ writeOk
                    THEN SaveUserSettings(files,
                             AppendExpense(GetUserSettings(files, CallerID), expense))
                    ELSE files
    /\ result' = TrackResult(addExpenseErr')
    /\ rpc' = "done"
    /\ UNCHANGED <<reqModel, resp, attempt, statsRequests, waits, responses,
                   expense, filesAtCall, now>>

(***************************************************************************)
(* Bot.handleChatMessage around that call: the settings read and the save  *)
(* of the user's message before it, the reply or the error message and     *)
(* the save of the assistant's message after it.  The chunks sendLLMResponse *)
(* sends are one entry of sent, ok when every chunk was sent.              *)
(***************************************************************************)
UserMsg(t) == [Role |-> "user", Content |-> <<"a">>, Timestamp |-> t]

AssistantMsg(t) == [Role |-> "assistant", Content |-> <<"b">>, Timestamp |-> t]

\* a handler that saves the assistant message whatever happened before
SavesAssistantAlways(res, sendOk) == TRUE

\* whether handleChatMessage reaches its last AddChatMessage
SavesAssistant(res, sendOk) == res = "ok" /\ sendOk

\* AddChatMessage(userID, m) as one call: its error is only logged
AddChatMessage(fs, userID, m, ok) ==
    IF ok THEN SaveUserSettings(fs, AppendChatMessage(GetUserSettings(fs, userID), m))
    ELSE fs

\* from the entry of handleChatMessage to the GetChatResponse call
ChatStart ==
    /\ chatPc = "start"
    /\ \E readOk, saveOk, sendOk \in BOOLEAN :
        IF ~readOk
        THEN /\ sent' = Append(sent, [kind |-> "error", ok |-> sendOk])
             /\ chatPc' = "end"
             /\ UNCHANGED <<files, now, reqModel, rpc, filesAtCall>>
        ELSE /\ sendOk
             /\ reqModel' = GetUserSettings(files, CallerID).CurrentModel
             /\ files' = AddChatMessage(files, CallerID, UserMsg(now), saveOk)
             /\ filesAtCall' = files'
             /\ now' = now + 1
             /\ rpc' = "completion"
             /\ chatPc' = "wait"
             /\ UNCHANGED sent
    /\ UNCHANGED <<resp, attempt, statsRequests, waits, responses, expense,
                   result, addExpenseCalls, addExpenseErr>>

\* from the return of GetChatResponse to the end of handleChatMessage
ChatFinish ==
    /\ chatPc = "wait"
    /\ rpc = "done"
    /\ chatPc' = "end"
    /\ \E sendOk, saveOk \in BOOLEAN :
        /\ sent' = Append(sent, [kind |-> IF result = "ok" THEN "reply" ELSE "error",
                                 ok   |-> sendOk])
        /\ IF SavesAssistant(result, sendOk)
           THEN /\ files' = AddChatMessage(files, CallerID, AssistantMsg(now), saveOk)
                /\ now' = now + 1
           ELSE /\ saveOk
                /\ UNCHANGED <<files, now>>
    /\ UNCHANGED reconVars

(***************************************************************************)
(* AddExpense calls made one after the other, with no other writer: each   *)
(* call runs from its read to its write before the next one starts.        *)
(***************************************************************************)
SeqCosts == {0, 1000, 2500}

SeqExpense(t, cost) ==
    [Timestamp |-> t, Model |-> NameGpt4, InputTokens |-> 10,
     OutputTokens |-> 20, Cost |-> cost]

\* AddExpense(userID, e) as one call; it returns an error and writes
\* nothing when its read or its write fails
AddExpense(fs, userID, e, readOk, writeOk) ==
    IF readOk /\ writeOk
    THEN SaveUserSettings(fs, AppendExpense(GetUserSettings(fs, userID), e))
    ELSE fs

SeqInit ==
    /\ files \in InitialFiles
    /\ files0 = files
    /\ calls = [u \in Users |-> <<>>]
    /\ now = 1

AddExpenseCall ==
    /\ now <= MaxSeqCalls
    /\ \E u \in Users, cost \in SeqCosts, readOk, writeOk \in BOOLEAN :
        /\ files' = AddExpense(files, u, SeqExpense(now, cost), readOk, writeOk)
        /\ calls' = IF readOk /\ writeOk
                    THEN [calls EXCEPT ![u] = Append(@, SeqExpense(now, cost))]
                    ELSE calls
    /\ now' = now + 1
    /\ UNCHANGED files0

(***************************************************************************)
(* CalculateCost on model names put together from fragments: the family    *)
(* substrings of the switch, two of them in other letter case, two halves  *)
(* of "gpt-4", and a letter no family has.                                 *)
(***************************************************************************)
NameFragments ==
    {<<"g","p","t","-","4">>,
     <<"g","p","t","-","3",".","5","-","t","u","r","b","o">>,
     <<"c","l","a","u","d","e">>,
     <<"G","P","T","-","4">>,
     <<"C","l","a","u","d","e">>,
     <<"g","p","t","-">>,
     <<"4">>,
     <<"x">>}

RECURSIVE NamesOf(_)
NamesOf(n) ==
    IF n = 0 THEN {<<>>}
    ELSE LET shorter == NamesOf(n - 1)
         IN  shorter \cup {s \o f : s \in shorter, f \in NameFragments}

TokenCounts == {0, 1000, 1500}

CostInit ==
    /\ cmodel \in NamesOf(MaxNameParts)
    /\ cin \in TokenCounts
    /\ cout \in TokenCounts
    /\ ccost = 0
    /\ cpc = "call"

Estimate ==
    /\ cpc = "call"
    /\ ccost' = CalculateCost(cmodel, cin, cout)
    /\ cpc' = "done"
    /\ UNCHANGED <<cmodel, cin, cout>>

(***************************************************************************)
(* The table conversions applied to every text of a few lines: table rows, *)
(* separator lines with and without outer pipes, a row of empty cells,     *)
(* plain and empty lines.                                                  *)
(***************************************************************************)
TableLines ==
    {<<"|"," ","A"," ","|"," ","B"," ","|">>,
     <<"|","-","-","-","|","-","-","-","|">>,
     <<"|"," ","1"," ","|"," ","2"," ","|">>,
     <<"-","-","|","-","-">>,
     <<" ","|"," ","|"," ">>,
     <<"A">>,
     <<>>}

RECURSIVE TableTextsOf(_)
TableTextsOf(n) ==
    IF n = 1 THEN TableLines
    ELSE LET shorter == TableTextsOf(n - 1)
         IN  shorter \cup {t \o <<"\n">> \o l : t \in shorter, l \in TableLines}

TableInit ==
    /\ tableText \in TableTextsOf(MaxTableLines)
    /\ outV2 = <<>>
    /\ outMarkdown = <<>>
    /\ outV2Dash = <<>>
    /\ outV2Blank = <<>>
    /\ tpc = "call"

ConvertTablesCall ==
    /\ tpc = "call"
    /\ outV2' = convertTablesToMarkdownV2(tableText)
    /\ outMarkdown' = convertTablesToMarkdown(tableText)
    /\ outV2Dash' = convertTablesToMarkdownV2Dash(tableText)
    /\ outV2Blank' = convertTablesToMarkdownV2Blank(tableText)
    /\ tpc' = "done"
    /\ UNCHANGED tableText

(***************************************************************************)
(* The handlers of inbound updates: handleMessage and handleCallbackQuery  *)
(* with the commands and buttons that change settings, clear the history,  *)
(* show expenses or the welcome text, and the chat message.  A handler is  *)
(* an operator from the files to its effect: the files it leaves, the      *)
(* messages it sends, and whether it called the storage and the completion *)
(* API.                                                                    *)
(***************************************************************************)
Effect(fs, msgs, store, completion) ==
    [files |-> fs, replies |-> msgs, store |-> store, completion |-> completion]

UpperLetters ==
    <<"A","B","C","D","E","F","G","H","I","J","K","L","M",
      "N","O","P","Q","R","S","T","U","V","W","X","Y","Z">>

LowerLetters ==
    <<"a","b","c","d","e","f","g","h","i","j","k","l","m",
      "n","o","p","q","r","s","t","u","v","w","x","y","z">>

\* strings.ToLower
ToLower(s) ==
    [i \in 1..Len(s) |->
        IF \E k \in 1..Len(UpperLetters) : UpperLetters[k] = s[i]
        THEN LowerLetters[CHOOSE k \in 1..Len(UpperLetters) : UpperLetters[k] = s[i]]
        ELSE s[i]]

WithHistory == <<"w","i","t","h","_","h","i","s","t","o","r","y">>

WithoutHistory == <<"w","i","t","h","o","u","t","_","h","i","s","t","o","r","y">>

\* a check that lets every mode through
ValidModeAny(mode) == TRUE

\* handleModeCommand: the test of the mode argument
ValidMode(mode) == mode = WithHistory \/ mode = WithoutHistory

\* the ChatMode value a valid mode is stored as
ModeName(mode) == IF mode = WithHistory THEN "with_history" ELSE "without_history"

\* a configuration check that lets everyone in
IsUserAllowedAlways(list, userID) == TRUE

\* Config.IsUserAllowed
IsUserAllowed(list, userID) == \E i \in 1..Len(list) : list[i] = userID

handleStartCommand(fs, userID) == Effect(fs, <<"welcome">>, FALSE, FALSE)

handleModeCommand(fs, userID, args, readOk, writeOk) ==
    IF args = <<>>
    THEN Effect(fs, IF readOk THEN <<"current_mode">> ELSE <<"error_settings">>,
                TRUE, FALSE)
    ELSE LET mode == ToLower(TrimSpace(args))
         IN  IF ~ValidMode(mode) THEN Effect(fs, <<"invalid_mode">>, FALSE, FALSE)
             ELSE IF ~readOk THEN Effect(fs, <<"error_settings">>, TRUE, FALSE)
             ELSE IF ~writeOk THEN Effect(fs, <<"error_saving">>, TRUE, FALSE)
             ELSE Effect(SaveUserSettings(fs,
                             SetChatMode(GetUserSettings(fs, userID), ModeName(mode))),
                         <<"mode_changed">>, TRUE, FALSE)

handleModelCommand(fs, userID, args, readOk, writeOk) ==
    IF args = <<>>
    THEN Effect(fs, IF readOk THEN <<"current_model">> ELSE <<"error_settings">>,
                TRUE, FALSE)
    ELSE LET model == TrimSpace(args)
         IN  IF model = <<>> THEN Effect(fs, <<"specify_model">>, FALSE, FALSE)
             ELSE IF ~readOk THEN Effect(fs, <<"error_settings">>, TRUE, FALSE)
             ELSE IF ~writeOk THEN Effect(fs, <<"error_saving">>, TRUE, FALSE)
             ELSE Effect(SaveUserSettings(fs,
                             SetCurrentModel(GetUserSettings(fs, userID), model)),
                         <<"model_changed">>, TRUE, FALSE)

handleAddModelCommand(fs, userID, args, readOk, writeOk) ==
    IF args = <<>> THEN Effect(fs, <<"addmodel_usage">>, FALSE, FALSE)
    ELSE LET model == TrimSpace(args)
         IN  IF model = <<>> THEN Effect(fs, <<"specify_model">>, FALSE, FALSE)
             ELSE IF ~readOk THEN Effect(fs, <<"error_settings">>, TRUE, FALSE)
             ELSE IF HasCustomModel(GetUserSettings(fs, userID), model)
             THEN Effect(fs, <<"already_listed">>, TRUE, FALSE)
             ELSE IF ~writeOk THEN Effect(fs, <<"error_saving">>, TRUE, FALSE)
             ELSE Effect(SaveUserSettings(fs,
                             AppendCustomModel(GetUserSettings(fs, userID), model)),
                         <<"model_added">>, TRUE, FALSE)

handleExpensesCommand(fs, userID, readOk) ==
    Effect(fs, IF readOk THEN <<"expenses">> ELSE <<"error_settings">>, TRUE, FALSE)

handleClearCommand(fs, userID, readOk, writeOk) ==
    IF readOk /\ writeOk
    THEN Effect(SaveUserSettings(fs, ClearHistory(GetUserSettings(fs, userID))),
                <<"history_cleared">>, TRUE, FALSE)
    ELSE Effect(fs, <<"error_clearing">>, TRUE, FALSE)

\* handleChatMessage from entry to return, with the storage calls after
\* the settings read succeeding
handleChatMessage(fs, userID, t, readOk, completionOk) ==
    IF ~readOk THEN Effect(fs, <<"error_processing">>, TRUE, FALSE)
    ELSE LET withUser == AddChatMessage(fs, userID, UserMsg(t), TRUE)
         IN  IF ~completionOk
             THEN Effect(withUser, <<"error_response">>, TRUE, TRUE)
             ELSE Effect(AddChatMessage(
                             AddExpense(withUser, userID, SeqExpense(t, 1000), TRUE, TRUE),
                             userID, AssistantMsg(t), TRUE),
                         <<"reply">>, TRUE, TRUE)

handleCommand(fs, update, readOk, writeOk) ==
    CASE update.command = "start" -> handleStartCommand(fs, update.from)
      [] update.command = "mode" ->
            handleModeCommand(fs, update.from, update.args, readOk, writeOk)
      [] update.command = "model" ->
            handleModelCommand(fs, update.from, update.args, readOk, writeOk)
      [] update.command = "addmodel" ->
            handleAddModelCommand(fs, update.from, update.args, readOk, writeOk)
      [] update.command = "expenses" -> handleExpensesCommand(fs, update.from, readOk)
      [] update.command = "clear" ->
            handleClearCommand(fs, update.from, readOk, writeOk)
      [] OTHER -> Effect(fs, <<"unknown_command">>, FALSE, FALSE)

handleMessage(fs, update, t, readOk, writeOk, completionOk) ==
    IF ~IsUserAllowed(allowedUsers, update.from)
    THEN Effect(fs, <<>>, FALSE, FALSE)
    ELSE IF update.command # ""
    THEN handleCommand(fs, update, readOk, writeOk)
    ELSE handleChatMessage(fs, update.from, t, readOk, completionOk)

\* callback data of the buttons
ModePrefix == <<"m","o","d","e","_">>

ModelPrefix == <<"m","o","d","e","l","_">>

DataConfirmClear == <<"c","o","n","f","i","r","m","_","c","l","e","a","r">>

DataCancelClear == <<"c","a","n","c","e","l","_","c","l","e","a","r">>

DataExpenses == <<"e","x","p","e","n","s","e","s">>

DataHelp == <<"h","e","l","p">>

\* strings.TrimPrefix
TrimPrefix(s, prefix) ==
    IF HasPrefix(s, prefix) THEN SubSeq(s, Len(prefix) + 1, Len(s)) ELSE s

handleCallbackQuery(fs, update, readOk, writeOk) ==
    IF ~IsUserAllowed(allowedUsers, update.from)
    THEN Effect(fs, <<>>, FALSE, FALSE)
    ELSE CASE update.data = DataExpenses -> handleExpensesCommand(fs, update.from, readOk)
           [] update.data = DataConfirmClear ->
                 handleClearCommand(fs, update.from, readOk, writeOk)
           [] update.data = DataCancelClear ->
                 Effect(fs, <<"clear_cancelled">>, FALSE, FALSE)
           [] update.data = DataHelp -> handleStartCommand(fs, update.from)
           [] update.data = ModePrefix \o WithHistory ->
                 handleModeCommand(fs, update.from, WithHistory, readOk, writeOk)
           [] update.data = ModePrefix \o WithoutHistory ->
                 handleModeCommand(fs, update.from, WithoutHistory, readOk, writeOk)
           [] OTHER ->
                 IF HasPrefix(update.data, ModelPrefix)
                 THEN handleModelCommand(fs, update.from,
                                         TrimPrefix(update.data, ModelPrefix),
                                         readOk, writeOk)
                 ELSE Effect(fs, <<"unknown_button">>, FALSE, FALSE)

(***************************************************************************)
(* Bot.Start hands every update to handleMessage or handleCallbackQuery.   *)
(* Here the updates are handled one after the other, each from its entry   *)
(* to its return; the interleavings of the storage calls of concurrent     *)
(* handlers are those of Read and Write above.                             *)
(***************************************************************************)
AllowedLists == {<<>>, <<1>>, <<2>>, <<1, 2>>}

ModeArgs ==
    {<<>>, WithHistory, WithoutHistory,
     <<" ","W","i","t","h","_","H","i","s","t","o","r","y">>,
     <<"o","n">>, <<" ">>}

ModelArgs == {<<>>, <<" ">>, NameGpt4, NameGemini}

CommandsWithArgs ==
    ({"mode"} \X ModeArgs) \cup ({"model", "addmodel"} \X ModelArgs)
        \cup ({"", "start", "expenses", "clear", "bogus"} \X {<<>>})

ButtonData ==
    {DataExpenses, DataConfirmClear, DataCancelClear, DataHelp,
     ModePrefix \o WithHistory, ModePrefix \o WithoutHistory,
     ModelPrefix \o NameGemini, <<"x">>}

\* an update with a Message (command "" is a chat message) or with a
\* CallbackQuery
Updates ==
    {[src |-> "message", from |-> u, command |-> c[1], args |-> c[2], data |-> <<>>] :
        u \in Users, c \in CommandsWithArgs}
    \cup {[src |-> "callback", from |-> u, command |-> "", args |-> <<>>, data |-> d] :
        u \in Users, d \in ButtonData}

NoUpdate == [src |-> "none", from |-> 0, command |-> "", args |-> <<>>, data |-> <<>>]

BotIdle ==
    /\ allowedUsers = <<>>
    /\ handled = 0
    /\ lastUpdate = NoUpdate
    /\ replies = <<>>
    /\ lastCalls = [store |-> FALSE, completion |-> FALSE]
    /\ prevFiles = [u \in Users |-> NoFile(u)]
    /\ touched = [u \in Users |-> FALSE]
    /\ completed = [u \in Users |-> FALSE]

BotInit ==
    /\ allowedUsers \in AllowedLists
    /\ files \in InitialFiles
    /\ prevFiles = files
    /\ now = 1
    /\ handled = 0
    /\ lastUpdate = NoUpdate
    /\ replies = <<>>
    /\ lastCalls = [store |-> FALSE, completion |-> FALSE]
    /\ touched = [u \in Users |-> FALSE]
    /\ completed = [u \in Users |-> FALSE]

HandleUpdate ==
    /\ handled < MaxUpdates
    /\ \E update \in Updates, readOk, writeOk, completionOk \in BOOLEAN :
        LET effect == IF update.src = "message"
                      THEN handleMessage(files, update, now, readOk, writeOk, completionOk)
                      ELSE handleCallbackQuery(files, update, readOk, writeOk)
        IN  /\ lastUpdate' = update
            /\ files' = effect.files
            /\ replies' = effect.replies
            /\ lastCalls' = [store |-> effect.store, completion |-> effect.completion]
            /\ touched' = [touched EXCEPT ![update.from] = @ \/ effect.store]
            /\ completed' = [completed EXCEPT ![update.from] = @ \/ effect.completion]
    /\ prevFiles' = files
    /\ handled' = handled + 1
    /\ now' = now + 1
    /\ UNCHANGED allowedUsers

(***************************************************************************)
(* The splitter applied to every bounded input.                            *)
(***************************************************************************)
Texts == UNION {[1..n -> Chars] : n \in 0..MaxTextLen}

SplitIdle ==
    /\ text = <<>>
    /\ maxLength = 1
    /\ messages = <<>>
    /\ messagesWords = <<>>
    /\ splitPc = "idle"

SplitInit ==
    /\ text \in Texts
    /\ maxLength \in 1..MaxMaxLength
    /\ messages = <<>>
    /\ messagesWords = <<>>
    /\ splitPc = "call"

\* the same texts under the wider limit
SplitWideInit ==
    /\ text \in Texts
    /\ maxLength = WideMaxLength
    /\ messages = <<>>
    /\ messagesWords = <<>>
    /\ splitPc = "call"

\* a caller (sendLLMResponse, sendMessageWithMode) splits its text
Split ==
    /\ splitPc = "call"
    /\ messages' = splitMessage(text, maxLength)
    /\ messagesWords' = splitMessageWords(text, maxLength)
    /\ splitPc' = "done"
    /\ UNCHANGED <<text, maxLength>>

(***************************************************************************)
(* Concurrent storage operations.  Bot.Start runs every update in its own  *)
(* goroutine; each read-modify-write operation takes the storage mutex     *)
(* twice: GetUserSettings under RLock, SaveUserSettings under Lock.  So    *)
(* each is two atomic steps, a read and a write, and other goroutines may  *)
(* run in between.                                                         *)
(***************************************************************************)
Handlers == 1..NumHandlers

OpKinds == {"AddExpense", "AddChatMessage", "ClearChatHistory",
            "mode", "model", "addmodel"}

\* the record handler h's GetChatResponse passes to AddExpense
ExpenseOf(h) ==
    [Timestamp |-> h, Model |-> NameGpt4, InputTokens |-> 100 * h,
     OutputTokens |-> 50, Cost |-> 1000 * h]

\* the message handler h's handleChatMessage passes to AddChatMessage
MessageOf(h) == [Role |-> "user", Content |-> <<"a">>, Timestamp |-> h]

\* what the operation of handler h does to the settings it read
ApplyOp(h, settings) ==
    CASE hop[h].kind = "AddExpense" -> AppendExpense(settings, ExpenseOf(h))
      [] hop[h].kind = "AddChatMessage" -> AppendChatMessage(settings, MessageOf(h))
      [] hop[h].kind = "ClearChatHistory" -> ClearHistory(settings)
      [] hop[h].kind = "mode" -> SetChatMode(settings, "with_history")
      [] hop[h].kind = "model" -> SetCurrentModel(settings, NameGpt4)
      [] hop[h].kind = "addmodel" -> AppendCustomModel(settings, NameGemini)

StoreInit ==
    /\ hop \in [Handlers -> [kind : OpKinds, user : Users]]
    /\ hpc = [h \in Handlers |-> "read"]
    /\ hsettings = [h \in Handlers |-> DefaultSettings(hop[h].user)]
    /\ hres = [h \in Handlers |-> "none"]
    /\ fver = [u \in Users |-> 0]
    /\ hver = [h \in Handlers |-> 0]
    /\ wroteStale = [h \in Handlers |-> FALSE]
    /\ files \in InitialFiles
    /\ now = 0

\* the GetUserSettings call that opens the operation, and the return when
\* it fails or when /addmodel finds the model already listed
Read(h) ==
    /\ hpc[h] = "read"
    /\ \E ok \in BOOLEAN :
        LET s == GetUserSettings(files, hop[h].user)
        IN  IF ~ok
            THEN /\ hpc' = [hpc EXCEPT ![h] = "done"]
                 /\ hres' = [hres EXCEPT ![h] = "err"]
                 /\ UNCHANGED <<hsettings, hver>>
            ELSE IF hop[h].kind = "addmodel" /\ HasCustomModel(s, NameGemini)
            THEN /\ hpc' = [hpc EXCEPT ![h] = "done"]
                 /\ hres' = [hres EXCEPT ![h] = "rejected"]
                 /\ UNCHANGED <<hsettings, hver>>
            ELSE /\ hpc' = [hpc EXCEPT ![h] = "write"]
                 /\ hsettings' = [hsettings EXCEPT ![h] = s]
                 /\ hver' = [hver EXCEPT ![h] = fver[hop[h].user]]
                 /\ UNCHANGED hres
    /\ UNCHANGED <<hop, files, fver, wroteStale, now>>

\* the modification and the SaveUserSettings call that closes the operation
Write(h) ==
    /\ hpc[h] = "write"
    /\ hpc' = [hpc EXCEPT ![h] = "done"]
    /\ \E ok \in BOOLEAN :
        IF ok
        THEN /\ files' = SaveUserSettings(files, ApplyOp(h, hsettings[h]))
             /\ fver' = [fver EXCEPT ![hop[h].user] = @ + 1]
             /\ wroteStale' = [wroteStale EXCEPT
                                 ![h] = hver[h] # fver[hop[h].user]]
             /\ hres' = [hres EXCEPT ![h] = "ok"]
        ELSE /\ hres' = [hres EXCEPT ![h] = "err"]
             /\ UNCHANGED <<files, fver, wroteStale>>
    /\ UNCHANGED <<hop, hsettings, hver, now>>

(***************************************************************************)
(* The same operations on a chat history that is empty, one short of the   *)
(* cap, or at the cap: AddChatMessage, ClearChatHistory and the settings   *)
(* save of /mode, all for user 1.                                          *)
(***************************************************************************)
OldMessage(k) == [Role |-> "user", Content |-> <<"b">>, Timestamp |-> k - 100]

HistoryFile(userID, n) ==
    [exists |-> TRUE,
     data   |-> [DefaultSettings(userID) EXCEPT
                   !.ChatHistory = [k \in 1..n |-> OldMessage(k)]]]

HistoryLengths == {0, MaxChatHistory - 1, MaxChatHistory}

HistoryOps == {"AddChatMessage", "ClearChatHistory", "mode"}

HistoryInit ==
    /\ hop \in [Handlers -> [kind : HistoryOps, user : {CallerID}]]
    /\ hpc = [h \in Handlers |-> "read"]
    /\ hsettings = [h \in Handlers |-> DefaultSettings(hop[h].user)]
    /\ hres = [h \in Handlers |-> "none"]
    /\ fver = [u \in Users |-> 0]
    /\ hver = [h \in Handlers |-> 0]
    /\ wroteStale = [h \in Handlers |-> FALSE]
    /\ \E n \in HistoryLengths :
          files = [u \in Users |-> IF u = CallerID THEN HistoryFile(u, n)
                                   ELSE NoFile(u)]
    /\ now = 0

(***************************************************************************)
(* Bot.formatForMarkdownV2 with the code placeholders, and the             *)
(* escapeMarkdownV2 and convertHeadersToMarkdownV2 it calls.  The letters  *)
(* of a placeholder name are one character here, and so is the character   *)
(* string(rune(index)) of each index.                                      *)
(***************************************************************************)
\* the backtick, which a string literal of this language cannot hold
Backtick == "backtick"

\* strings.ReplaceAll for a non-empty old
RECURSIVE ReplaceAll(_, _, _)
ReplaceAll(s, old, new) ==
    IF Len(s) < Len(old) THEN s
    ELSE IF HasPrefix(s, old)
         THEN new \o ReplaceAll(SubSeq(s, Len(old) + 1, Len(s)), old, new)
         ELSE <<s[1]>> \o ReplaceAll(Tail(s), old, new)

specialChars ==
    <<"_", "*", "[", "]", "(", ")", "~", Backtick, ">", "#", "+", "-", "=", "|",
      "{", "}", ".", "!">>

RECURSIVE EscapeFrom(_, _)
EscapeFrom(txt, k) ==
    IF k > Len(specialChars) THEN txt
    ELSE EscapeFrom(ReplaceAll(txt, <<specialChars[k]>>,
                               <<"\\", specialChars[k]>>), k + 1)

escapeMarkdownV2(txt) == EscapeFrom(txt, 1)

RECURSIVE HeaderLevel(_)
HeaderLevel(s) ==
    IF s # <<>> /\ s[1] = "#" THEN 1 + HeaderLevel(Tail(s)) ELSE 0

HeaderLine(line) ==
    LET trimmed == TrimSpace(line)
        headerText ==
            TrimSpace(SubSeq(trimmed, HeaderLevel(trimmed) + 1, Len(trimmed)))
    IN  IF HasPrefix(trimmed, <<"#">>)
        THEN IF headerText # <<>> THEN << <<"*">> \o headerText \o <<"*">> >>
             ELSE <<>>
        ELSE <<line>>

RECURSIVE HeaderLines(_)
HeaderLines(lines) ==
    IF lines = <<>> THEN <<>>
    ELSE HeaderLine(Head(lines)) \o HeaderLines(Tail(lines))

convertHeadersToMarkdownV2(txt) ==
    StringsJoin(HeaderLines(StringsSplit(txt, <<"\n">>)), <<"\n">>)

BlockName == "CODEBLOCK"
InlineName == "INLINECODE"

\* string(rune(index)) for the indices 0, 1, 2, 3, 4
RuneChars == <<"rune0", "rune1", "rune2", "rune3", "rune4">>

Placeholder(name, index) ==
    <<"_", "_", "_", name, "_", RuneChars[index + 1], "_", "_", "_">>

\* the length of the longest prefix of s without a backtick
RECURSIVE NoTickRun(_)
NoTickRun(s) ==
    IF s = <<>> \/ s[1] = Backtick THEN 0 ELSE 1 + NoTickRun(Tail(s))

Fence == <<Backtick, Backtick, Backtick>>

\* the length of the match of codeBlockRegex at the start of s, 0 without one
CodeBlockMatch(s) ==
    IF HasPrefix(s, Fence)
    THEN LET n == NoTickRun(SubSeq(s, 4, Len(s)))
         IN  IF HasPrefix(SubSeq(s, 4 + n, Len(s)), Fence) THEN 6 + n ELSE 0
    ELSE 0

\* the length of the match of inlineCodeRegex at the start of s, 0 without one
InlineCodeMatch(s) ==
    IF HasPrefix(s, <<Backtick>>)
    THEN LET n == NoTickRun(Tail(s))
         IN  IF n >= 1 /\ HasPrefix(SubSeq(s, 2 + n, Len(s)), <<Backtick>>)
             THEN 2 + n ELSE 0
    ELSE 0

\* ReplaceAllStringFunc of formatForMarkdownV2: the text with each match
\* replaced by the placeholder of its index, and the matches in order
RECURSIVE Extract(_, _, _)
Extract(s, name, index) ==
    IF s = <<>> THEN [text |-> <<>>, found |-> <<>>]
    ELSE LET n == IF name = BlockName THEN CodeBlockMatch(s)
                  ELSE InlineCodeMatch(s)
         IN  IF n > 0
             THEN LET rest == Extract(SubSeq(s, n + 1, Len(s)), name, index + 1)
                  IN  [text |-> Placeholder(name, index) \o rest.text,
                       found |-> <<SubSeq(s, 1, n)>> \o rest.found]
             ELSE LET rest == Extract(Tail(s), name, index)
                  IN  [text |-> <<s[1]>> \o rest.text, found |-> rest.found]

\* the escaping of a stored match when it is restored
EscapeCode(original) ==
    ReplaceAll(ReplaceAll(original, <<"\\">>, <<"\\", "\\">>),
               <<Backtick>>, <<"\\", Backtick>>)

\* the orders in which a range over a map of n entries can visit them
MapOrders(n) ==
    {p \in [1..n -> 1..n] : \A i, j \in 1..n : i # j => p[i] # p[j]}

\* the restoring loop over one of the two maps, from the i-th entry visited
RECURSIVE Restore(_, _, _, _, _)
Restore(txt, found, name, order, i) ==
    IF i > Len(found) THEN txt
    ELSE Restore(ReplaceAll(txt, Placeholder(name, order[i] - 1),
                            EscapeCode(found[order[i]])),
                 found, name, order, i + 1)

CodeBlocksOf(txt) == Extract(txt, BlockName, 0)

InlineCodesOf(txt) == Extract(CodeBlocksOf(txt).text, InlineName, 0)

formatForMarkdownV2(txt, blockOrder, codeOrder) ==
    LET escaped ==
            escapeMarkdownV2(convertHeadersToMarkdownV2(
                convertTablesToMarkdownV2Blank(InlineCodesOf(txt).text)))
    IN  Restore(Restore(escaped, CodeBlocksOf(txt).found, BlockName,
                        blockOrder, 1),
                InlineCodesOf(txt).found, InlineName, codeOrder, 1)

\* the characters of the texts given to formatForMarkdownV2: a letter, the
\* backtick, a reserved character and the backslash
FormatChars == {"a", Backtick, ".", "\\"}

FormatTexts ==
    UNION {[1..n -> FormatChars] : n \in 0..MaxFormatLen}
        \cup {<<Backtick, Backtick, Backtick, "a", Backtick, Backtick, Backtick>>,
              <<Backtick, Backtick, Backtick, ".", Backtick, Backtick, Backtick>>,
              <<Backtick, Backtick, Backtick, "\\", Backtick, Backtick, Backtick>>}

FormatIdle ==
    /\ formatText = <<>>
    /\ formatted = <<>>
    /\ formatPc = "idle"

FormatInit ==
    /\ formatText \in FormatTexts
    /\ formatted = <<>>
    /\ formatPc = "call"

FormatCall ==
    /\ formatPc = "call"
    /\ \E blockOrder \in MapOrders(Len(CodeBlocksOf(formatText).found)),
          codeOrder \in MapOrders(Len(InlineCodesOf(formatText).found)) :
          formatted' = formatForMarkdownV2(formatText, blockOrder, codeOrder)
    /\ formatPc' = "done"
    /\ UNCHANGED formatText

(***************************************************************************)
(* The typing indicator of handleChatMessage: the handler from the start   *)
(* of the goroutine to its reply, and the goroutine running                *)
(* sendTypingIndicator.  A select with both channels ready takes either.   *)
(***************************************************************************)
TypingIdle ==
    /\ handlerPc = "idle"
    /\ typingPc = "none"
    /\ ctxDone = FALSE
    /\ tickerC = 0
    /\ ticks = 0
    /\ llmErr = FALSE
    /\ outbox = <<>>

TypingInit ==
    /\ handlerPc = "prepared"
    /\ typingPc = "none"
    /\ ctxDone = FALSE
    /\ tickerC = 0
    /\ ticks = 0
    /\ llmErr = FALSE
    /\ outbox = <<>>

\* wg.Add(1) and the go statement; the handler goes on to GetChatResponse
StartTypingIndicator ==
    /\ handlerPc = "prepared"
    /\ handlerPc' = "calling"
    /\ typingPc' = "started"
    /\ UNCHANGED <<ctxDone, tickerC, ticks, llmErr, outbox>>

\* the ticker, between time.NewTicker and ticker.Stop, delivers a tick
Tick ==
    /\ typingPc \in {"started", "select"}
    /\ tickerC = 0
    /\ ticks < MaxTicks
    /\ tickerC' = 1
    /\ ticks' = ticks + 1
    /\ UNCHANGED <<handlerPc, typingPc, ctxDone, llmErr, outbox>>

\* the initial typing action
SendInitialTyping ==
    /\ typingPc = "started"
    /\ outbox' = Append(outbox, "typing")
    /\ typingPc' = "select"
    /\ UNCHANGED <<handlerPc, ctxDone, tickerC, ticks, llmErr>>

\* case <-ticker.C
SelectTick ==
    /\ typingPc = "select"
    /\ tickerC = 1
    /\ tickerC' = 0
    /\ outbox' = Append(outbox, "typing")
    /\ UNCHANGED <<handlerPc, typingPc, ctxDone, ticks, llmErr>>

\* case <-ctx.Done(), then the deferred ticker.Stop and wg.Done
SelectDone ==
    /\ typingPc = "select"
    /\ ctxDone
    /\ typingPc' = "returned"
    /\ UNCHANGED <<handlerPc, ctxDone, tickerC, ticks, llmErr, outbox>>

GetChatResponseReturns ==
    /\ handlerPc = "calling"
    /\ llmErr' \in BOOLEAN
    /\ handlerPc' = "returned"
    /\ UNCHANGED <<typingPc, ctxDone, tickerC, ticks, outbox>>

Cancel ==
    /\ handlerPc = "returned"
    /\ ctxDone' = TRUE
    /\ handlerPc' = "waiting"
    /\ UNCHANGED <<typingPc, tickerC, ticks, llmErr, outbox>>

\* the handler stays in wg.Wait without it
WaitGroupIgnored == TRUE

WaitGroupDone == typingPc = "returned"

Wait ==
    /\ handlerPc = "waiting"
    /\ WaitGroupDone
    /\ handlerPc' = "answering"
    /\ UNCHANGED <<typingPc, ctxDone, tickerC, ticks, llmErr, outbox>>

\* the error message, or the response with sendLLMResponse; then the
\* handler returns
Answer ==
    /\ handlerPc = "answering"
    /\ outbox' = Append(outbox, IF llmErr THEN "error" ELSE "response")
    /\ handlerPc' = "done"
    /\ UNCHANGED <<typingPc, ctxDone, tickerC, ticks, llmErr>>

(***************************************************************************)
(* Bot.handleChatMessage from its entry to the messages of the completion  *)
(* request, next to other handlers saving messages of the same user.       *)
(***************************************************************************)
NoMessage == [Role |-> "none", Content |-> <<>>, Timestamp |-> 0]

\* systemMsg: the content of createSystemMessageForHTML is one character
SystemMsg == [Role |-> "system", Content |-> <<"s">>, Timestamp |-> 0]

\* the userMsg of a concurrently handled message of the same user
OtherMsg(t) == [Role |-> "user", Content |-> <<"o">>, Timestamp |-> t]

\* the loop over history: for i := start; i < len(history)-1; i++
ContextWindow(h) ==
    LET start == IF Len(h) - 11 < 0 THEN 0 ELSE Len(h) - 11
    IN  [i \in 1..(Len(h) - 1 - start) |-> h[start + i]]

\* messages, from its declaration to the append of userMsg
PrepareMessages(settings, h, err, m) ==
    <<SystemMsg>>
        \o (IF settings.ChatMode = "with_history" /\ ~err
            THEN ContextWindow(h) ELSE <<>>)
        \o <<m>>

ChatModes == {"with_history", "without_history"}

\* the lengths of the stored history when the handler starts
StoredLengths == {0, 1, 10, 11}

RequestIdle ==
    /\ requestPc = "idle"
    /\ settingsRead = DefaultSettings(CallerID)
    /\ userMsg = NoMessage
    /\ userMsgSaved = FALSE
    /\ historyRead = <<>>
    /\ historyErr = FALSE
    /\ request = <<>>
    /\ otherSaved = 0

RequestInit ==
    /\ requestPc = "start"
    /\ settingsRead = DefaultSettings(CallerID)
    /\ userMsg = NoMessage
    /\ userMsgSaved = FALSE
    /\ historyRead = <<>>
    /\ historyErr = FALSE
    /\ request = <<>>
    /\ otherSaved = 0
    /\ now = 1
    /\ \E n \in StoredLengths, mode \in ChatModes :
          files = [u \in Users |->
                     IF u = CallerID
                     THEN [HistoryFile(u, n) EXCEPT !.data.ChatMode = mode]
                     ELSE NoFile(u)]

\* b.storage.GetUserSettings(userID); on an error the handler answers and
\* returns
ReadSettings ==
    /\ requestPc = "start"
    /\ \E readOk \in BOOLEAN :
          IF readOk
          THEN /\ settingsRead' = GetUserSettings(files, CallerID)
               /\ requestPc' = "save"
          ELSE /\ requestPc' = "end"
               /\ UNCHANGED settingsRead
    /\ UNCHANGED <<userMsg, userMsgSaved, historyRead, historyErr, request,
                   otherSaved, files, now>>

\* userMsg and b.storage.AddChatMessage(userID, userMsg), its error logged
SaveUserMessage ==
    /\ requestPc = "save"
    /\ userMsg' = UserMsg(now)
    /\ \E saveOk \in BOOLEAN :
          /\ files' = AddChatMessage(files, CallerID, UserMsg(now), saveOk)
          /\ userMsgSaved' = saveOk
    /\ now' = now + 1
    /\ requestPc' = "history"
    /\ UNCHANGED <<settingsRead, historyRead, historyErr, request, otherSaved>>

\* the handler of another message of the same user saves its userMsg
OtherHandlerSaves ==
    /\ requestPc \in {"save", "history"}
    /\ otherSaved < MaxOtherMessages
    /\ files' = AddChatMessage(files, CallerID, OtherMsg(now), TRUE)
    /\ now' = now + 1
    /\ otherSaved' = otherSaved + 1
    /\ UNCHANGED <<requestPc, settingsRead, userMsg, userMsgSaved, historyRead,
                   historyErr, request>>

\* b.storage.GetChatHistory(userID) in with_history mode, and the messages
PrepareRequest ==
    /\ requestPc = "history"
    /\ \E readOk \in BOOLEAN :
          /\ settingsRead.ChatMode # "with_history" => readOk
          /\ historyErr' = ~readOk
          /\ historyRead' =
                IF settingsRead.ChatMode = "with_history" /\ readOk
                THEN GetUserSettings(files, CallerID).ChatHistory
                ELSE <<>>
          /\ request' = PrepareMessages(settingsRead, historyRead', ~readOk,
                                        userMsg)
    /\ requestPc' = "call"
    /\ UNCHANGED <<settingsRead, userMsg, userMsgSaved, otherSaved, files, now>>

(***************************************************************************)
(* Specifications.                                                         *)
(***************************************************************************)
vars == <<splitVars, files, now, reconVars, storeVars, chatVars, seqVars,
          costVars, tableVars, botVars, formatVars, typingVars, requestVars>>

\* the variables of the specifications added last
LaterIdle == FormatIdle /\ TypingIdle /\ RequestIdle

laterVars == <<formatVars, typingVars, requestVars>>

TableIdle ==
    /\ tableText = <<>>
    /\ outV2 = <<>>
    /\ outMarkdown = <<>>
    /\ outV2Dash = <<>>
    /\ outV2Blank = <<>>
    /\ tpc = "idle"

CostIdle ==
    /\ cmodel = <<>>
    /\ cin = 0
    /\ cout = 0
    /\ ccost = 0
    /\ cpc = "idle"

SeqIdle ==
    /\ calls = [u \in Users |-> <<>>]
    /\ files0 = [u \in Users |-> NoFile(u)]

\* the variables of the specifications that are not running
OthersIdle == SeqIdle /\ CostIdle /\ TableIdle /\ BotIdle /\ LaterIdle

otherVars == <<seqVars, costVars, tableVars, botVars, laterVars>>

ChatIdle ==
    /\ chatPc = "idle"
    /\ sent = <<>>

ReconIdle ==
    /\ reqModel = NameGpt35
    /\ rpc = "idle"
    /\ resp = NoResponse
    /\ attempt = 0
    /\ statsRequests = 0
    /\ waits = <<>>
    /\ responses = <<>>
    /\ expense = NoExpense
    /\ result = "none"
    /\ addExpenseCalls = 0
    /\ addExpenseErr = FALSE
    /\ filesAtCall = [u \in Users |-> NoFile(u)]

StoreIdle ==
    /\ hop = [h \in Handlers |-> [kind |-> "mode", user |-> CallerID]]
    /\ hpc = [h \in Handlers |-> "done"]
    /\ hsettings = [h \in Handlers |-> DefaultSettings(CallerID)]
    /\ hres = [h \in Handlers |-> "none"]
    /\ fver = [u \in Users |-> 0]
    /\ hver = [h \in Handlers |-> 0]
    /\ wroteStale = [h \in Handlers |-> FALSE]

\* splitMessage on every bounded text
SpecSplitInit ==
    /\ SplitInit
    /\ ReconIdle
    /\ StoreIdle
    /\ ChatIdle
    /\ OthersIdle
    /\ files = [u \in Users |-> NoFile(u)]
    /\ now = 0

SpecSplitNext ==
    Split /\ UNCHANGED <<files, now, reconVars, storeVars, chatVars, otherVars>>

SpecSplit == SpecSplitInit /\ [][SpecSplitNext]_vars

\* splitMessage on every bounded text under the wider limit
SpecSplitWideInit ==
    /\ SplitWideInit
    /\ ReconIdle
    /\ StoreIdle
    /\ ChatIdle
    /\ OthersIdle
    /\ files = [u \in Users |-> NoFile(u)]
    /\ now = 0

SpecSplitWide == SpecSplitWideInit /\ [][SpecSplitNext]_vars

\* one GetChatResponse call
SpecReconInit == ReconInit /\ SplitIdle /\ StoreIdle /\ ChatIdle /\ OthersIdle

SpecReconNext ==
    \/ ChatCompletion /\ UNCHANGED <<splitVars, storeVars, chatVars, otherVars>>
    \/ StatsAttempt /\ UNCHANGED <<splitVars, storeVars, chatVars, otherVars>>
    \/ TrackExpense /\ UNCHANGED <<splitVars, storeVars, chatVars, otherVars>>

SpecRecon == SpecReconInit /\ [][SpecReconNext]_vars

\* one handleChatMessage of user 1, with its GetChatResponse call
SpecChatInit ==
    /\ ReconIdle
    /\ SplitIdle
    /\ StoreIdle
    /\ files \in InitialFiles
    /\ now = 1
    /\ chatPc = "start"
    /\ sent = <<>>
    /\ OthersIdle

SpecChatNext ==
    \/ ChatStart /\ UNCHANGED <<splitVars, storeVars, otherVars>>
    \/ ChatCompletion /\ UNCHANGED <<splitVars, storeVars, chatVars, otherVars>>
    \/ StatsAttempt /\ UNCHANGED <<splitVars, storeVars, chatVars, otherVars>>
    \/ TrackExpense /\ UNCHANGED <<splitVars, storeVars, chatVars, otherVars>>
    \/ ChatFinish /\ UNCHANGED <<splitVars, storeVars, otherVars>>

SpecChat == SpecChatInit /\ [][SpecChatNext]_vars

\* the storage operations of concurrently handled updates
Init == StoreInit /\ SplitIdle /\ ReconIdle /\ ChatIdle /\ OthersIdle

Next ==
    \E h \in Handlers :
        \/ Read(h) /\ UNCHANGED <<splitVars, reconVars, chatVars, otherVars>>
        \/ Write(h) /\ UNCHANGED <<splitVars, reconVars, chatVars, otherVars>>

Spec == Init /\ [][Next]_vars

\* the same operations on long chat histories
SpecHistoryInit == HistoryInit /\ SplitIdle /\ ReconIdle /\ ChatIdle /\ OthersIdle

SpecHistory == SpecHistoryInit /\ [][Next]_vars

\* the groups that only the handler specifications use
HandlersIdle == SplitIdle /\ ReconIdle /\ StoreIdle /\ ChatIdle

handlerVars == <<splitVars, reconVars, storeVars, chatVars>>

\* AddExpense calls one after the other
SpecSeqInit ==
    SeqInit /\ HandlersIdle /\ CostIdle /\ TableIdle /\ BotIdle /\ LaterIdle

SpecSeqNext ==
    AddExpenseCall
        /\ UNCHANGED <<handlerVars, costVars, tableVars, botVars, laterVars>>

SpecSeq == SpecSeqInit /\ [][SpecSeqNext]_vars

\* CalculateCost on every bounded model name
SpecCostInit ==
    /\ CostInit
    /\ HandlersIdle
    /\ SeqIdle
    /\ TableIdle
    /\ BotIdle
    /\ LaterIdle
    /\ files = [u \in Users |-> NoFile(u)]
    /\ now = 0

SpecCostNext ==
    Estimate
        /\ UNCHANGED <<handlerVars, seqVars, tableVars, botVars, laterVars,
                       files, now>>

SpecCost == SpecCostInit /\ [][SpecCostNext]_vars

\* the table conversions on every bounded text
SpecTableInit ==
    /\ TableInit
    /\ HandlersIdle
    /\ SeqIdle
    /\ CostIdle
    /\ BotIdle
    /\ LaterIdle
    /\ files = [u \in Users |-> NoFile(u)]
    /\ now = 0

SpecTableNext ==
    ConvertTablesCall
        /\ UNCHANGED <<handlerVars, seqVars, costVars, botVars, laterVars,
                       files, now>>

SpecTable == SpecTableInit /\ [][SpecTableNext]_vars

\* the updates of the allowed users and of strangers
SpecBotInit ==
    BotInit /\ HandlersIdle /\ SeqIdle /\ CostIdle /\ TableIdle /\ LaterIdle

SpecBotNext ==
    HandleUpdate
        /\ UNCHANGED <<handlerVars, seqVars, costVars, tableVars, laterVars>>

SpecBot == SpecBotInit /\ [][SpecBotNext]_vars

\* formatForMarkdownV2 on every bounded text
SpecFormatInit ==
    /\ FormatInit
    /\ HandlersIdle
    /\ SeqIdle
    /\ CostIdle
    /\ TableIdle
    /\ BotIdle
    /\ TypingIdle
    /\ RequestIdle
    /\ files = [u \in Users |-> NoFile(u)]
    /\ now = 0

SpecFormatNext ==
    FormatCall
        /\ UNCHANGED <<handlerVars, seqVars, costVars, tableVars, botVars,
                       typingVars, requestVars, files, now>>

SpecFormat == SpecFormatInit /\ [][SpecFormatNext]_vars

\* the groups of the specifications of single functions
FunctionsIdle == SeqIdle /\ CostIdle /\ TableIdle /\ BotIdle /\ FormatIdle

functionVars == <<seqVars, costVars, tableVars, botVars, formatVars>>

\* handleChatMessage and its typing indicator
SpecTypingInit ==
    /\ TypingInit
    /\ HandlersIdle
    /\ FunctionsIdle
    /\ RequestIdle
    /\ files = [u \in Users |-> NoFile(u)]
    /\ now = 0

\* what the typing indicator leaves alone
typingOthers == <<handlerVars, functionVars, requestVars, files, now>>

SpecTypingNext ==
    \/ StartTypingIndicator
           /\ UNCHANGED typingOthers
    \/ Tick /\ UNCHANGED typingOthers
    \/ SendInitialTyping /\ UNCHANGED typingOthers
    \/ SelectTick /\ UNCHANGED typingOthers
    \/ SelectDone /\ UNCHANGED typingOthers
    \/ GetChatResponseReturns
           /\ UNCHANGED typingOthers
    \/ Cancel /\ UNCHANGED typingOthers
    \/ Wait /\ UNCHANGED typingOthers
    \/ Answer /\ UNCHANGED typingOthers

SpecTyping == SpecTypingInit /\ [][SpecTypingNext]_vars

\* handleChatMessage up to its completion request
SpecRequestInit == RequestInit /\ HandlersIdle /\ FunctionsIdle /\ TypingIdle

SpecRequestNext ==
    \/ ReadSettings /\ UNCHANGED <<handlerVars, functionVars, typingVars>>
    \/ SaveUserMessage /\ UNCHANGED <<handlerVars, functionVars, typingVars>>
    \/ OtherHandlerSaves /\ UNCHANGED <<handlerVars, functionVars, typingVars>>
    \/ PrepareRequest /\ UNCHANGED <<handlerVars, functionVars, typingVars>>

SpecRequest == SpecRequestInit /\ [][SpecRequestNext]_vars

(***************************************************************************)
(* Properties of splitMessage.                                             *)
(***************************************************************************)
RECURSIVE Concat(_)
Concat(ss) == IF ss = <<>> THEN <<>> ELSE Head(ss) \o Concat(Tail(ss))

\* the characters of s that are not whitespace, in order
NonSpace(s) == SelectSeq(s, LAMBDA c : ~IsSpace(c))

\* C1: every chunk returned by splitMessage(text, maxLength), maxLength > 0,
\* has length <= maxLength, in both versions of splitMessage.
C1_ChunksWithinLimit ==
    splitPc = "done" =>
        /\ \A i \in 1..Len(messages) : Len(messages[i]) <= maxLength
        /\ \A i \in 1..Len(messagesWords) : Len(messagesWords[i]) <= maxLength

\* C5: the chunks concatenated in order, whitespace deleted, are the input
\* with its whitespace deleted.
C5_ContentPreserved ==
    splitPc = "done" => NonSpace(Concat(messages)) = NonSpace(text)

\* C5 witness: a text that was split into several chunks at a word boundary
\* and by a forced cut.
C5_Witness ==
    /\ splitPc = "done"
    /\ Len(messages) >= 3
    /\ Len(text) > maxLength
    /\ \E i \in 1..Len(text) : IsSpace(text[i])
    /\ \E w \in 1..Len(Fields(text)) : Len(Fields(text)[w]) > maxLength

\* C17: when len(text) <= maxLength, splitMessage returns exactly one
\* chunk, and the chunk is text unchanged, whitespace included; in both
\* versions of splitMessage.
C17_ShortTextIsOneChunk ==
    (splitPc = "done" /\ Len(text) <= maxLength) =>
        /\ messages = <<text>>
        /\ messagesWords = <<text>>

\* C17 witness: a text as long as the limit that begins and ends with
\* whitespace a split would trim.
C17_Witness ==
    /\ splitPc = "done"
    /\ Len(text) = maxLength
    /\ text = <<" ", "a", "\n">>
    /\ messages = <<text>>

\* C23 as stated: for the empty text splitMessage returns no chunk.
C23_EmptyTextGivesNoChunk ==
    (splitPc = "done" /\ text = <<>>) =>
        (messages = <<>> /\ messagesWords = <<>>)

\* C23: for every text and every maxLength > 0 splitMessage returns a
\* sequence of strings, and for the empty text that sequence is the one
\* chunk "", in both versions of splitMessage.
C23_EmptyTextGivesOneEmptyChunk ==
    splitPc = "done" =>
        /\ messages \in Seq(Seq(Chars))
        /\ messagesWords \in Seq(Seq(Chars))
        /\ text = <<>> => (messages = << <<>> >> /\ messagesWords = << <<>> >>)

C23_Witness ==
    /\ splitPc = "done"
    /\ text = <<>>
    /\ maxLength = 1
    /\ Len(messages) = 1
    /\ messages[1] = <<>>

(***************************************************************************)
(* Properties of GetChatResponse and GetGenerationStats.                   *)
(***************************************************************************)
Returned == rpc = "done" /\ result = "ok"

ExpenseBuilt == rpc \in {"persist", "done"} /\ resp.kind = "ok" /\ resp.choices > 0

HistoryOf(fs, u) == fs[u].data.ExpenseHistory

TotalOf(fs, u) == fs[u].data.TotalExpenses

\* C2 as stated: every GetChatResponse call that returns successfully has
\* appended exactly one ExpenseRecord to the user's aggregate.
C2_ExactlyOneAppended ==
    Returned => Len(HistoryOf(files, CallerID))
                    = Len(HistoryOf(filesAtCall, CallerID)) + 1

\* C2 amended: a successful GetChatResponse calls AddExpense exactly once;
\* when AddExpense succeeds exactly the built record is appended and the
\* total grows by its cost, when it fails nothing is stored; never two.
C2_OneCallOneRecordUnlessStoreFails ==
    Returned =>
        /\ addExpenseCalls = 1
        /\ IF addExpenseErr
           THEN files = filesAtCall
           ELSE /\ HistoryOf(files, CallerID)
                     = Append(HistoryOf(filesAtCall, CallerID), expense)
                /\ TotalOf(files, CallerID)
                     = TotalOf(filesAtCall, CallerID) + expense.Cost
                /\ \A u \in Users \ {CallerID} : files[u] = filesAtCall[u]

\* C2 witness: a reconciled completion was recorded after an earlier one.
C2_Witness ==
    /\ Returned
    /\ ~addExpenseErr
    /\ responses # <<>>
    /\ Len(HistoryOf(files, CallerID)) = 2

IsSuccess200(o) == o.kind = "response" /\ o.status = 200 /\ o.body = "json"

IsStatus202(o) == o.kind = "response" /\ o.status = 202

FromStats(e, p) ==
    /\ e.Model = p.Model
    /\ e.InputTokens = p.NativeTokensPrompt
    /\ e.OutputTokens = p.NativeTokensCompletion
    /\ e.Cost = p.TotalCost

\* the rate table of the spec, per model name of Models
TableRate(m) ==
    CASE m = NameGpt4 -> <<Gpt4InputPer1K, Gpt4OutputPer1K>>
      [] m = NameGpt35 -> <<Gpt35InputPer1K, Gpt35OutputPer1K>>
      [] m = NameClaude -> <<ClaudeInputPer1K, ClaudeOutputPer1K>>
      [] OTHER -> <<DefaultInputPer1K, DefaultOutputPer1K>>

IsFallback(e) ==
    /\ e.Model = reqModel
    /\ e.InputTokens = resp.PromptTokens
    /\ e.OutputTokens = resp.CompletionTokens
    /\ e.Cost = (resp.PromptTokens * TableRate(reqModel)[1]) \div 1000
                  + (resp.CompletionTokens * TableRate(reqModel)[2]) \div 1000

ThreePendingThenSuccess ==
    /\ Len(responses) >= 4
    /\ \A k \in 1..3 : IsStatus202(responses[k])
    /\ IsSuccess200(responses[4])

\* C6: when the stats endpoint answers 202 three times and then success,
\* exactly four stats requests are made, the waits are 1s, 2s, 3s, and the
\* expense carries the success payload's native tokens, model and cost.
C6_ThreePendingThenSuccess ==
    ThreePendingThenSuccess =>
        /\ Len(responses) = 4
        /\ statsRequests = 4
        /\ waits = <<1, 2, 3>>
        /\ ExpenseBuilt
        /\ FromStats(expense, responses[4].stats)

\* C6 witness: that call returned, with a payload that differs from the
\* fallback estimate.
C6_Witness ==
    /\ ThreePendingThenSuccess
    /\ Returned
    /\ ~IsFallback(expense)

\* C7: with no generation identifier the stats endpoint is never called and
\* the expense is the requested model, the normalized usage counts and the
\* rate-table cost.
C7_NoIdentifierFallback ==
    (resp.kind = "ok" /\ resp.choices > 0 /\ resp.ID = "") =>
        /\ statsRequests = 0
        /\ responses = <<>>
        /\ waits = <<>>
        /\ ExpenseBuilt
        /\ IsFallback(expense)

\* C7 witness: such a call returned with a non-zero estimate.
C7_Witness ==
    /\ Returned
    /\ resp.ID = ""
    /\ resp.PromptTokens > 0
    /\ expense.Cost > 0

\* C8: the expense takes the stats payload's values if and only if the
\* stats lookup ended with a non-pending status-200 response that parsed;
\* in every other outcome it is the fallback estimate.
C8_ReconciledIffStatsParsed ==
    ExpenseBuilt =>
        IF resp.ID # "" /\ responses # <<>>
               /\ IsSuccess200(responses[Len(responses)])
        THEN FromStats(expense, responses[Len(responses)].stats)
        ELSE IsFallback(expense)

\* C8 witness: both sides happen; here the reconciled one, with values
\* that no fallback produces.
C8_Witness ==
    /\ Returned
    /\ responses # <<>>
    /\ IsSuccess200(responses[Len(responses)])
    /\ ~IsFallback(expense)
    /\ expense.InputTokens > 0

\* C9: a transport failure on any stats attempt ends the lookup: it is the
\* last request, no wait follows it, and the expense is the fallback.
C9_TransportFailureAborts ==
    \A k \in 1..Len(responses) :
        responses[k].kind = "transport" =>
            /\ k = Len(responses)
            /\ statsRequests = k
            /\ Len(waits) = k - 1
            /\ ExpenseBuilt
            /\ IsFallback(expense)

\* C9 witness: a transport failure after two pending answers.
C9_Witness ==
    /\ Returned
    /\ Len(responses) = 3
    /\ responses[3].kind = "transport"
    /\ waits = <<1, 2>>

NumPending == Cardinality({k \in 1..Len(responses) : IsStatus202(responses[k])})

\* C10: at most 5 stats requests are made per completion and the wait after
\* the k-th pending answer is k seconds.
C10_BoundedBackoff ==
    /\ statsRequests <= 5
    /\ Len(responses) = statsRequests
    /\ Len(waits) = NumPending
    /\ \A k \in 1..Len(waits) : waits[k] = k

\* C10 witness: five pending answers.
C10_Witness ==
    /\ Returned
    /\ statsRequests = 5
    /\ waits = <<1, 2, 3, 4, 5>>

\* C27: every wait of the stats lookup is followed by another stats
\* request: once the lookup has ended, the waits taken are fewer than the
\* requests made.
C27_WaitsBetweenAttempts ==
    rpc \in {"persist", "done"} /\ statsRequests > 0
        => Len(waits) < statsRequests

(***************************************************************************)
(* Properties of the storage layer under concurrent handlers.              *)
(***************************************************************************)
RECURSIVE SumCost(_)
SumCost(history) ==
    IF history = <<>> THEN 0 ELSE Head(history).Cost + SumCost(Tail(history))

\* C3: in every stored state of a user's aggregate, under any interleaving
\* of the read-modify-write operations, TotalExpenses is the sum of Cost
\* over ExpenseHistory.
C3_TotalIsSumOfCosts ==
    \A u \in Users : TotalOf(files, u) = SumCost(HistoryOf(files, u))

\* C3 witness: a stored aggregate with two expenses of which the later
\* write came from a handler whose read was stale.
C3_Witness ==
    \E u \in Users : \E h \in Handlers :
        /\ files[u].exists
        /\ Len(HistoryOf(files, u)) >= 2
        /\ hop[h].user = u
        /\ wroteStale[h]
        /\ TotalOf(files, u) > 1500

Stored(h) ==
    \E k \in 1..Len(HistoryOf(files, hop[h].user)) :
        HistoryOf(files, hop[h].user)[k] = ExpenseOf(h)

AddedExpense(h) == hop[h].kind = "AddExpense" /\ hres[h] = "ok"

\* C4: an AddExpense that returned success is missing from the stored
\* history only through the race: some other operation on the same user
\* wrote settings it had read before a write that came in between.
C4_LostOnlyByInterleaving ==
    \A h \in Handlers :
        (AddedExpense(h) /\ ~Stored(h)) =>
            \E g \in Handlers \ {h} :
                /\ hop[g].user = hop[h].user
                /\ hres[g] = "ok"
                /\ wroteStale[g]

\* C4 witness: two AddExpense calls for one user both returned success,
\* nothing else ran, and only one of the two records is stored.
C4_Witness ==
    \E h, g \in Handlers :
        /\ h # g
        /\ hop[h].user = hop[g].user
        /\ AddedExpense(h) /\ AddedExpense(g)
        /\ ~Stored(h) /\ Stored(g)
        /\ \A k \in Handlers \ {h, g} : hpc[k] = "read"
        /\ fver[hop[h].user] = 2

(***************************************************************************)
(* Properties of handleChatMessage.                                        *)
(***************************************************************************)
SentKinds == [i \in 1..Len(sent) |-> sent[i].kind]

AssistantSaved(fs) ==
    \E k \in 1..Len(fs[CallerID].data.ChatHistory) :
        fs[CallerID].data.ChatHistory[k].Role = "assistant"

\* C11: when store.AddExpense returned an error, GetChatResponse still
\* returns the content with no error, and handleChatMessage still sends the
\* reply (and no error message) to the user.
C11_PersistenceFailureNonFatal ==
    addExpenseErr =>
        /\ rpc = "done"
        /\ result = "ok"
        /\ files[CallerID].data.ExpenseHistory
             = filesAtCall[CallerID].data.ExpenseHistory
        /\ chatPc = "end" => SentKinds = <<"reply">>

C11_Witness ==
    /\ addExpenseErr
    /\ chatPc = "end"
    /\ sent = <<[kind |-> "reply", ok |-> TRUE]>>
    /\ AssistantSaved(files)

\* C20: when the completion call fails (transport error, unparseable body,
\* provider error object, non-200 status, or no choices), the user is sent
\* an error message and no reply, no ExpenseRecord is appended and no
\* assistant message is appended.
C20_FailedCompletionLeavesNoTrace ==
    (rpc = "done" /\ (resp.kind # "ok" \/ resp.choices = 0)) =>
        /\ result = "error"
        /\ addExpenseCalls = 0
        /\ files = filesAtCall
        /\ ~AssistantSaved(files)
        /\ chatPc = "end" => SentKinds = <<"error">>

C20_Witness ==
    /\ chatPc = "end"
    /\ resp.kind = "ok"
    /\ resp.choices = 0
    /\ files[CallerID].exists
    /\ files[CallerID].data.ChatHistory = <<UserMsg(1)>>
    /\ sent = <<[kind |-> "error", ok |-> TRUE]>>

(***************************************************************************)
(* Isolation of the users' files.                                          *)
(***************************************************************************)
\* handler h completes the write of its operation in this step
WriteStepOf(h) == hpc[h] = "write" /\ hpc'[h] = "done"

OwnExpense(u, e) ==
    \/ e = EarlierFile(u).data.ExpenseHistory[1]
    \/ \E h \in Handlers :
        hop[h].user = u /\ hop[h].kind = "AddExpense" /\ e = ExpenseOf(h)

OwnMessage(u, m) ==
    \E h \in Handlers :
        hop[h].user = u /\ hop[h].kind = "AddChatMessage" /\ m = MessageOf(h)

OnlyOwnRecords(fs, u) ==
    LET d == fs[u].data
    IN  /\ d.UserID = u
        /\ \A k \in 1..Len(d.ExpenseHistory) : OwnExpense(u, d.ExpenseHistory[k])
        /\ \A k \in 1..Len(d.ChatHistory) : OwnMessage(u, d.ChatHistory[k])

\* C12: under every interleaving of the storage operations of two users, a
\* user's file changes only in the write step of an operation issued for
\* that user, and its lists hold only that user's own records.
C12_UserIsolation ==
    [][\A u \in Users :
          /\ files'[u] # files[u] =>
                \E h \in Handlers : hop[h].user = u /\ WriteStepOf(h)
          /\ OnlyOwnRecords(files', u)]_vars

C12_Witness ==
    \E h, g \in Handlers :
        /\ hop[h] = [kind |-> "AddExpense", user |-> 1]
        /\ hop[g] = [kind |-> "AddChatMessage", user |-> 2]
        /\ hres[h] = "ok"
        /\ hres[g] = "ok"
        /\ hver[h] = 0
        /\ hver[g] = 0
        /\ files[1].data.ChatHistory = <<>>
        /\ files[2].data.ChatHistory = <<MessageOf(g)>>
        /\ files[1].data.ExpenseHistory
             = Append(EarlierFile(1).data.ExpenseHistory, ExpenseOf(h))
        /\ files[2].data.ExpenseHistory = <<>>

(***************************************************************************)
(* Sequential AddExpense calls.                                            *)
(***************************************************************************)
\* C13: after N AddExpense calls for a user that ran one after the other
\* and returned nil, with no other writer, the user's ExpenseHistory is what
\* it was before followed by exactly those N records in call order, and
\* TotalExpenses has grown by the sum of their costs.
C13_SequentialAppendsKeepOrder ==
    \A u \in Users :
        /\ HistoryOf(files, u) = HistoryOf(files0, u) \o calls[u]
        /\ TotalOf(files, u) = TotalOf(files0, u) + SumCost(calls[u])

C13_Witness ==
    /\ ~files0[1].exists
    /\ Len(calls[1]) = MaxSeqCalls
    /\ calls[1][1].Cost = 2500
    /\ calls[1][2].Cost = 0
    /\ calls[1][3].Cost = 1000
    /\ HistoryOf(files, 1) = calls[1]
    /\ TotalOf(files, 1) = 3500

(***************************************************************************)
(* Properties of CalculateCost.                                            *)
(***************************************************************************)
\* sub occurs in s at some position, letter for letter
Occurs(sub, s) ==
    \E i \in 1..(Len(s) - Len(sub) + 1) :
        \A j \in 1..Len(sub) : s[i + j - 1] = sub[j]

HasGpt4(s) == Occurs(<<"g","p","t","-","4">>, s)

HasGpt35(s) == Occurs(<<"g","p","t","-","3",".","5","-","t","u","r","b","o">>, s)

HasClaude(s) == Occurs(<<"c","l","a","u","d","e">>, s)

\* the estimate for the token counts of the call at the given rates
CostAt(inRate, outRate) == (cin * inRate) \div 1000 + (cout * outRate) \div 1000

C15_ClaudeAnywhereUsesClaudePair ==
    (cpc = "done" /\ HasClaude(cmodel)) =>
        ccost = CostAt(ClaudeInputPer1K, ClaudeOutputPer1K)

\* C15: a model name that contains "claude" anywhere gets the claude rate
\* pair when it contains neither "gpt-4" nor "gpt-3.5-turbo"; when it also
\* contains one of those, it gets that family's pair, "gpt-4" first.
C15_ClaudeAfterGptFamilies ==
    (cpc = "done" /\ HasClaude(cmodel)) =>
        ccost = IF HasGpt4(cmodel)
                THEN CostAt(Gpt4InputPer1K, Gpt4OutputPer1K)
                ELSE IF HasGpt35(cmodel)
                THEN CostAt(Gpt35InputPer1K, Gpt35OutputPer1K)
                ELSE CostAt(ClaudeInputPer1K, ClaudeOutputPer1K)

C15_Witness ==
    /\ cpc = "done"
    /\ cmodel = <<"c","l","a","u","d","e">> \o <<"g","p","t","-","4">>
    /\ cin = 1000
    /\ cout = 1000
    /\ ccost = 90000

(***************************************************************************)
(* Properties of the table conversions.                                    *)
(***************************************************************************)
TableBlock ==
    <<"|"," ","A"," ","|"," ","B"," ","|">> \o <<"\n">>
        \o <<"|","-","-","-","|","-","-","-","|">> \o <<"\n">>
        \o <<"|"," ","1"," ","|"," ","2"," ","|">>

\* the lines of an output that are not empty
NonEmptyLines(out) == SelectSeq(StringsSplit(out, <<"\n">>), LAMBDA l : l # <<>>)

PlainRow == <<Bullet," ","1"," ","|"," ","2">>

\* C16: the block "| A | B |\n|---|---|\n| 1 | 2 |" converts to exactly two
\* bullet lines, the first with each cell wrapped in the emphasis marker,
\* the second with plain cells; the separator line gives no output line.
C16_TableBlockToTwoBullets ==
    (tpc = "done" /\ tableText = TableBlock) =>
        /\ NonEmptyLines(outV2)
             = << <<Bullet," ","*","A","*"," ","|"," ","*","B","*">>, PlainRow >>
        /\ NonEmptyLines(outMarkdown)
             = << <<Bullet," ","*","*","A","*","*"," ","|"," ","*","*","B","*","*">>,
                  PlainRow >>
        /\ NonEmptyLines(outV2Blank)
             = << <<Bullet," ","*","A","*"," ","|"," ","*","B","*">>, PlainRow >>

(***************************************************************************)
(* Properties of the update handlers.                                      *)
(***************************************************************************)
\* u is in the configured list
Listed(u) == \E i \in 1..Len(allowedUsers) : allowedUsers[i] = u

\* C18: whatever updates arrive, a user who is not in allowed_users never
\* causes a completion call nor a read or write of stored data: no handler
\* calls the storage or the completion API for that user, and the user's
\* file stays as it was.
C18_StrangersReachNothing ==
    \A u \in Users :
        ~Listed(u) =>
            /\ ~touched[u]
            /\ ~completed[u]
            /\ lastUpdate.from = u =>
                  (~lastCalls.store /\ ~lastCalls.completion /\ files = prevFiles)

\* C18 witness: the press of the button that clears the history by a
\* stranger who has a file, while another user is allowed.
C18_Witness ==
    /\ handled = 1
    /\ allowedUsers = <<1>>
    /\ lastUpdate.from = 2
    /\ lastUpdate.src = "callback"
    /\ lastUpdate.data = DataConfirmClear
    /\ files[2].exists
    /\ ~touched[2]

\* the message texts that tell the user a request was rejected
Rejections == {"invalid_mode", "specify_model", "unknown_command", "unknown_button"}

\* the last update came from a user who is not in allowed_users
FromStranger == handled > 0 /\ ~Listed(lastUpdate.from)

\* the last update was a command of an allowed user with a malformed
\* argument: a /mode value that is neither mode, a blank model name
MalformedArgument ==
    /\ handled > 0
    /\ Listed(lastUpdate.from)
    /\ lastUpdate.src = "message"
    /\ \/ lastUpdate.command = "mode" /\ lastUpdate.args \in {<<"o","n">>, <<" ">>}
       \/ lastUpdate.command \in {"model", "addmodel"} /\ lastUpdate.args = <<" ">>

\* the handler of the last update made one pass: it called neither the
\* storage nor the completion API and left the files as they were
DroppedWithoutEffect ==
    /\ ~lastCalls.store
    /\ ~lastCalls.completion
    /\ files = prevFiles

\* C19 as stated: every validation error, from a stranger or by a malformed
\* command argument, is answered with a rejection message to the user, is
\* not retried and leaves the stored state unchanged.
C19_ValidationErrorsAnswered ==
    (FromStranger \/ MalformedArgument) =>
        /\ Len(replies) = 1
        /\ replies[1] \in Rejections
        /\ DroppedWithoutEffect

\* C19: a malformed command argument of an allowed user is answered with
\* one rejection message; an update from a user who is not in allowed_users
\* is answered with nothing (it is only logged); neither is retried and
\* both leave the stored state unchanged.
C19_MalformedAnsweredStrangerIgnored ==
    /\ MalformedArgument =>
          /\ Len(replies) = 1
          /\ replies[1] \in Rejections
          /\ DroppedWithoutEffect
    /\ FromStranger => (replies = <<>> /\ DroppedWithoutEffect)

\* C19 witness: a stranger's /mode command with a malformed value was
\* handled while another user is allowed.
C19_Witness ==
    /\ handled = 1
    /\ allowedUsers = <<1>>
    /\ lastUpdate.from = 2
    /\ lastUpdate.src = "message"
    /\ lastUpdate.command = "mode"
    /\ lastUpdate.args = <<"o","n">>
    /\ replies = <<>>
    /\ files[2].exists

(***************************************************************************)
(* The cap of the chat history.                                            *)
(***************************************************************************)
\* the last n elements of s, all of s when it is shorter
LastN(s, n) ==
    LET len == IF Len(s) < n THEN Len(s) ELSE n
    IN  [i \in 1..len |-> s[Len(s) - len + i]]

\* C21: under every interleaving of AddChatMessage, ClearChatHistory and
\* settings saves, a stored chat history never has more than 50 entries;
\* and an AddChatMessage whose read saw the latest write of the file leaves
\* exactly the most recent 50 of the old messages and the new one, in
\* their order.
C21_HistoryCappedAtFifty ==
    [][/\ \A u \in Users : Len(files'[u].data.ChatHistory) <= 50
       /\ \A h \in Handlers :
            (/\ WriteStepOf(h)
             /\ hop[h].kind = "AddChatMessage"
             /\ hres'[h] = "ok"
             /\ hver[h] = fver[hop[h].user])
            => files'[hop[h].user].data.ChatHistory
                 = LastN(Append(files[hop[h].user].data.ChatHistory, MessageOf(h)), 50)]_vars

\* C21 witness: an AddChatMessage on a full history dropped the oldest
\* message and put the new one last.
C21_Witness ==
    \E h \in Handlers :
        /\ hop[h].kind = "AddChatMessage"
        /\ hres[h] = "ok"
        /\ Len(hsettings[h].ChatHistory) = 50
        /\ Len(files[CallerID].data.ChatHistory) = 50
        /\ files[CallerID].data.ChatHistory[1] = OldMessage(2)
        /\ files[CallerID].data.ChatHistory[50] = MessageOf(h)

(***************************************************************************)
(* The sign of the stored costs.                                           *)
(***************************************************************************)
\* C22: every ExpenseRecord that GetChatResponse appends has cost >= 0, on
\* the path that takes the provider's total cost and on the path that
\* estimates from the rate table, whatever the provider answered.
C22_CostNonNegative ==
    \A k \in 1..Len(HistoryOf(files, CallerID)) :
        HistoryOf(files, CallerID)[k].Cost >= 0

(***************************************************************************)
(* Properties of formatForMarkdownV2.                                      *)
(***************************************************************************)
\* the code fences and the inline code spans of the text
C24_CodeOfText ==
    CodeBlocksOf(formatText).found \o InlineCodesOf(formatText).found

\* C24: when formatForMarkdownV2 has returned, every code fence and every
\* inline code span of the text is in the output with nothing but its
\* backslashes and backticks escaped, and no placeholder name is left in the
\* output.
C24_CodeRestoredNoPlaceholder ==
    formatPc = "done" =>
        /\ \A k \in 1..Len(C24_CodeOfText) :
              StringsContains(formatted, EscapeCode(C24_CodeOfText[k]))
        /\ ~StringsContains(formatted, <<BlockName>>)
        /\ ~StringsContains(formatted, <<InlineName>>)

(***************************************************************************)
(* Properties of the typing indicator.                                     *)
(***************************************************************************)
\* C25: the context is cancelled from the step after the return of
\* GetChatResponse on and not before; when the handler sends its response or
\* its error message, and when it has returned, the typing goroutine has
\* returned; no typing action follows the response or the error message in
\* what is sent to the chat.
C25_TypingStopsBeforeAnswer ==
    /\ ctxDone <=> handlerPc \in {"waiting", "answering", "done"}
    /\ handlerPc \in {"answering", "done"} => typingPc = "returned"
    /\ \A i, j \in 1..Len(outbox) :
          i < j /\ outbox[i] \in {"response", "error"}
              => outbox[j] # "typing"

\* the ticker fired twice before the goroutine returned, GetChatResponse
\* failed and the handler has sent the error message
C25_Witness ==
    /\ handlerPc = "done"
    /\ llmErr
    /\ outbox = <<"typing", "typing", "typing", "error">>
    /\ ticks = 2

\* the paragraphs and the lines splitMessage takes the text apart into
RECURSIVE C26_TrimmedUnits(_)
C26_TrimmedUnits(pieces) ==
    IF pieces = <<>> THEN <<>>
    ELSE (IF TrimSpace(Head(pieces)) = <<>> THEN <<>>
          ELSE <<TrimSpace(Head(pieces))>>)
         \o C26_TrimmedUnits(Tail(pieces))

C26_Paragraphs == C26_TrimmedUnits(StringsSplit(text, <<"\n", "\n">>))

C26_LinesOf(paragraph) == C26_TrimmedUnits(StringsSplit(paragraph, <<"\n">>))

C26_InOneChunk(unit) ==
    \E k \in 1..Len(messages) : StringsContains(messages[k], unit)

\* C26: when splitMessage has returned, every paragraph of the text that is
\* not longer than maxLength is inside one chunk as it stands, and so is
\* every line of a paragraph that is not longer than maxLength.
C26_ShortUnitsStayWhole ==
    splitPc = "done" =>
        \A p \in 1..Len(C26_Paragraphs) :
            /\ Len(C26_Paragraphs[p]) <= maxLength
                  => C26_InOneChunk(C26_Paragraphs[p])
            /\ \A l \in 1..Len(C26_LinesOf(C26_Paragraphs[p])) :
                  Len(C26_LinesOf(C26_Paragraphs[p])[l]) <= maxLength
                      => C26_InOneChunk(C26_LinesOf(C26_Paragraphs[p])[l])

(***************************************************************************)
(* Properties of the completion request of handleChatMessage.              *)
(***************************************************************************)
\* the stored messages that precede the handler's own message in the
\* history it read: all of them when its own message is not stored
C28_Preceding ==
    IF \E k \in 1..Len(historyRead) : historyRead[k] = userMsg
    THEN SubSeq(historyRead, 1,
                (CHOOSE k \in 1..Len(historyRead) : historyRead[k] = userMsg) - 1)
    ELSE historyRead

\* C28: the messages given to GetChatResponse are, in with_history mode
\* with the history read, the system message, the last 10 (or all, if
\* fewer) of the stored messages preceding the current one in their order,
\* and the current user message; otherwise the system message and the
\* current user message.
C28_RequestIsContextThenCurrent ==
    requestPc = "call" =>
        IF settingsRead.ChatMode = "with_history" /\ ~historyErr
        THEN request = <<SystemMsg>> \o LastN(C28_Preceding, 10) \o <<userMsg>>
        ELSE request = <<SystemMsg, userMsg>>

(***************************************************************************)
(* The settings commands and the expense ledger.                           *)
(***************************************************************************)
\* the operations of /mode, /model, /addmodel and /clear
C29_Commands == {"mode", "model", "addmodel", "ClearChatHistory"}

\* C29: under every interleaving, the write step of a /mode, /model,
\* /addmodel or /clear operation leaves the ExpenseHistory and the
\* TotalExpenses stored for its user as they were.
C29_CommandsLeaveExpenses ==
    [][\A h \in Handlers :
          hop[h].kind \in C29_Commands /\ WriteStepOf(h) =>
              /\ files'[hop[h].user].data.ExpenseHistory
                    = files[hop[h].user].data.ExpenseHistory
              /\ files'[hop[h].user].data.TotalExpenses
                    = files[hop[h].user].data.TotalExpenses]_vars

(***************************************************************************)
(* The lines the table conversions leave alone.                            *)
(***************************************************************************)
C30_StartsAndEndsWithPipe(line) ==
    HasPrefix(TrimSpace(line), <<"|">>) /\ HasSuffix(TrimSpace(line), <<"|">>)

\* line i is a separator line directly after a table row
C30_SeparatorAfterRow(lines, i) ==
    /\ i > 1
    /\ IsTableRow(TrimSpace(lines[i - 1]))
    /\ LooksLikeSeparator(TrimSpace(lines[i]))

\* the lines from the i-th on that are neither
RECURSIVE C30_OtherLines(_, _)
C30_OtherLines(lines, i) ==
    IF i > Len(lines) THEN <<>>
    ELSE (IF C30_StartsAndEndsWithPipe(lines[i]) \/ C30_SeparatorAfterRow(lines, i)
          THEN <<>> ELSE <<lines[i]>>)
         \o C30_OtherLines(lines, i + 1)

C30_InputOthers == C30_OtherLines(StringsSplit(tableText, <<"\n">>), 1)

\* the lines of an output that are not bullet lines made of rows
RECURSIVE C30_Unconverted(_)
C30_Unconverted(lines) ==
    IF lines = <<>> THEN <<>>
    ELSE (IF HasPrefix(Head(lines), <<Bullet>>)
             \/ C30_StartsAndEndsWithPipe(Head(lines))
          THEN <<>> ELSE <<Head(lines)>>)
         \o C30_Unconverted(Tail(lines))

\* an empty output is the output of no line when no line was to be kept
C30_OutputOthers(out) ==
    IF out = <<>> /\ C30_InputOthers = <<>> THEN <<>>
    ELSE C30_Unconverted(StringsSplit(out, <<"\n">>))

\* C30: when the table conversions have returned, the lines of the text
\* that are neither lines starting and ending with a pipe nor separator
\* lines directly after a table row are the other lines of each output,
\* unchanged and in their order.
C30_OtherLinesUnchanged ==
    tpc = "done" =>
        /\ C30_OutputOthers(outV2) = C30_InputOthers
        /\ C30_OutputOthers(outMarkdown) = C30_InputOthers
        /\ C30_OutputOthers(outV2Dash) = C30_InputOthers

====
